---------------------------- MODULE Spec2Model ----------------------------
(***************************************************************************)
(* State-machine model of the smarapi brokerage dashboard back end: the    *)
(* portfolio routes (full sync, price refresh, manual holdings) working on *)
(* the Portfolio document, and the order routes (place, modify, cancel,    *)
(* order sync) working on the Order collection.  The broker gateway        *)
(* (smartApiService) is an external collaborator: each of its calls is a   *)
(* nondeterministic choice of a result.                                    *)
(*                                                                         *)
(* Numbers: JavaScript Numbers are modelled by integers (prices in whole   *)
(* units); a percentage is kept to the whole percent.  Two values outside  *)
(* the price range stand for a missing field and for NaN.                  *)
(***************************************************************************)
EXTENDS Integers, Sequences, FiniteSets, TLC

VARIABLES
    portfolio,    \* the stored Portfolio document of the user
    pfReq,        \* per request slot: position and in-memory document of a portfolio request
    pfLast,       \* the portfolio request that finished last and how (observation only)
    orders,       \* the stored Order collection of the user, in order of creation
    brokerBook,   \* the orders the broker holds for the user, in order of acceptance
    placeReq,     \* the order placement request in flight and its position
    syncReq,      \* the order sync request in flight and its position
    ordLast,      \* the order request that finished last and how (observation only)
    movers,       \* a call of getTopMovers: its arguments and its result
    ui            \* the browser pages: sync buttons, alerts, and the sync calls in flight

pfVars  == <<portfolio, pfReq, pfLast>>
ordVars == <<orders, brokerBook, placeReq, syncReq, ordLast>>
vars    == <<portfolio, pfReq, pfLast, orders, brokerBook, placeReq, syncReq, ordLast, movers, ui>>

--------------------------------------------------------------------------
(* Bounds of the model *)

\* longest broker holdings snapshot a full sync receives
MaxSnapshot == 2
\* longest holdings list a manual add may grow
MaxHoldings == 2
\* longest order book snapshot an order sync receives
MaxOrderSnapshot == 2
\* most orders the broker holds for the user
MaxBrokerOrders == 1
\* most placement requests that create a local record
MaxPlacements == 1
\* longest list drawn from the catalogue of holdings handed to getTopMovers
MaxMovers == 3
\* the limits handed to getTopMovers run from 0 to one above this
MaxLimit == 2
\* click listeners on the dashboard's sync button
MaxListeners == 2
\* API.syncPortfolio calls in flight
MaxCalls == 3
\* the request slots: two HTTP requests of the user may be in flight
Slots == {"r1", "r2"}

--------------------------------------------------------------------------
(* Values *)

\* a field the broker record does not carry (JavaScript undefined)
Absent == -1
\* the result of parseFloat on a missing field
NaN == -2

Symbols   == {"INFY", "TCS"}
Exchanges == {"NSE", "BSE"}

\* JavaScript truthiness of a numeric field: undefined and 0 are falsy
Truthy(v) == v # Absent /\ v # 0

\* a || b
OrElse(a, b) == IF Truthy(a) THEN a ELSE b

\* parseFloat(v): NaN for a missing field, the number otherwise
ParseFloat(v) == IF v = Absent THEN NaN ELSE v

\* x / y * 100 kept to the whole percent
Percent(x, y) == (x * 100) \div y

--------------------------------------------------------------------------
(* Portfolio document (models/Portfolio.js) *)

\* holdingSchema.pnlPercentage: the default computed when the subdocument is built
PnlPercentageDefault(averagePrice, currentPrice) ==
    IF averagePrice = 0 \/ averagePrice = NaN \/ currentPrice = NaN THEN 0
    ELSE Percent(currentPrice - averagePrice, averagePrice)

\* a holding subdocument built from plain fields (holdingSchema and its defaults)
NewHolding(symbol, exchange, quantity, averagePrice, currentPrice) ==
    [symbol |-> symbol, exchange |-> exchange, quantity |-> quantity,
     averagePrice |-> averagePrice, currentPrice |-> currentPrice,
     pnlPercentage |-> PnlPercentageDefault(averagePrice, currentPrice)]

\* schema validation of one holding on save: enum, min: 0, Number casts (NaN is refused)
ValidHolding(h) ==
    /\ h.exchange \in Exchanges
    /\ h.quantity >= 0
    /\ h.averagePrice # NaN /\ h.averagePrice >= 0
    /\ h.currentPrice # NaN

\* portfolio.save() is accepted iff every holding passes validation
SaveAccepts(doc) == \A i \in 1..Len(doc.holdings) : ValidHolding(doc.holdings[i])

RECURSIVE SumInvested(_)
SumInvested(hs) ==
    IF hs = <<>> THEN 0
    ELSE Head(hs).quantity * Head(hs).averagePrice + SumInvested(Tail(hs))

RECURSIVE SumCurrent(_)
SumCurrent(hs) ==
    IF hs = <<>> THEN 0
    ELSE Head(hs).quantity * Head(hs).currentPrice + SumCurrent(Tail(hs))

\* calculateTotals adding to the stored sums instead of starting from 0
calculateTotalsAccumulates(doc) ==
    LET totalInvested == doc.totalInvestedValue + SumInvested(doc.holdings)
        totalCurrent  == doc.totalCurrentValue + SumCurrent(doc.holdings)
    IN [doc EXCEPT
          !.totalInvestedValue = totalInvested,
          !.totalCurrentValue  = totalCurrent,
          !.totalPnL           = totalCurrent - totalInvested,
          !.totalPnLPercentage =
              IF totalInvested > 0
              THEN Percent(totalCurrent - totalInvested, totalInvested)
              ELSE 0]

\* portfolioSchema.methods.calculateTotals
calculateTotals(doc) ==
    LET totalInvested == SumInvested(doc.holdings)
        totalCurrent  == SumCurrent(doc.holdings)
    IN [doc EXCEPT
          !.totalInvestedValue = totalInvested,
          !.totalCurrentValue  = totalCurrent,
          !.totalPnL           = totalCurrent - totalInvested,
          !.totalPnLPercentage =
              IF totalInvested > 0
              THEN Percent(totalCurrent - totalInvested, totalInvested)
              ELSE 0]

\* index of the first holding with this (symbol, exchange), 0 when there is none
RECURSIVE FindIndexFrom(_, _, _, _)
FindIndexFrom(hs, symbol, exchange, i) ==
    IF i > Len(hs) THEN 0
    ELSE IF hs[i].symbol = symbol /\ hs[i].exchange = exchange THEN i
    ELSE FindIndexFrom(hs, symbol, exchange, i + 1)

findHoldingIndex(hs, symbol, exchange) == FindIndexFrom(hs, symbol, exchange, 1)

\* portfolioSchema.methods.updateHolding: overwrite the first match in place
\* (the spread keeps the stored derived fields), else push a new subdocument
updateHolding(doc, data) ==
    LET i == findHoldingIndex(doc.holdings, data.symbol, data.exchange)
        hs == IF i # 0
              THEN [doc.holdings EXCEPT ![i] =
                       [@ EXCEPT !.quantity = data.quantity,
                                 !.averagePrice = data.averagePrice,
                                 !.currentPrice = data.currentPrice]]
              ELSE Append(doc.holdings,
                          NewHolding(data.symbol, data.exchange, data.quantity,
                                     data.averagePrice, data.currentPrice))
    IN calculateTotals([doc EXCEPT !.holdings = hs])

\* removeHolding without the recomputation of the totals
removeHoldingStaleTotals(doc, symbol, exchange) ==
    LET keep(h) == ~(h.symbol = symbol /\ h.exchange = exchange)
    IN [doc EXCEPT !.holdings = SelectSeq(doc.holdings, keep)]

\* portfolioSchema.methods.removeHolding: drop every holding with the key
removeHolding(doc, symbol, exchange) ==
    LET keep(h) == ~(h.symbol = symbol /\ h.exchange = exchange)
    IN calculateTotals([doc EXCEPT !.holdings = SelectSeq(doc.holdings, keep)])

\* priceData.find(...): the first price entry of the key, 0 when there is none
RECURSIVE FindPriceFrom(_, _, _, _)
FindPriceFrom(priceData, symbol, exchange, i) ==
    IF i > Len(priceData) THEN 0
    ELSE IF priceData[i].symbol = symbol /\ priceData[i].exchange = exchange THEN i
    ELSE FindPriceFrom(priceData, symbol, exchange, i + 1)

\* updateCurrentPrices zeroing the price of a holding that has no price entry
updateCurrentPricesZeroesMissing(doc, priceData) ==
    LET refresh(h) ==
            LET k == FindPriceFrom(priceData, h.symbol, h.exchange, 1)
            IN [h EXCEPT !.currentPrice = IF k # 0 THEN priceData[k].price ELSE 0]
        hs == [i \in 1..Len(doc.holdings) |-> refresh(doc.holdings[i])]
    IN calculateTotals([doc EXCEPT !.holdings = hs])

\* portfolioSchema.methods.updateCurrentPrices
updateCurrentPrices(doc, priceData) ==
    LET refresh(h) ==
            LET k == FindPriceFrom(priceData, h.symbol, h.exchange, 1)
            IN IF k # 0 THEN [h EXCEPT !.currentPrice = priceData[k].price] ELSE h
        hs == [i \in 1..Len(doc.holdings) |-> refresh(doc.holdings[i])]
    IN calculateTotals([doc EXCEPT !.holdings = hs])

\* Array.prototype.sort with (a, b) => b.pnlPercentage - a.pnlPercentage: a stable
\* sort, computed by inserting each holding after those that do not sort after it
RECURSIVE InsertByPnl(_, _)
InsertByPnl(sorted, h) ==
    IF sorted = <<>> THEN <<h>>
    ELSE IF Head(sorted).pnlPercentage - h.pnlPercentage >= 0
         THEN <<Head(sorted)>> \o InsertByPnl(Tail(sorted), h)
         ELSE <<h>> \o sorted

RECURSIVE SortByPnl(_)
SortByPnl(hs) ==
    IF hs = <<>> THEN <<>>
    ELSE InsertByPnl(SortByPnl(SubSeq(hs, 1, Len(hs) - 1)), hs[Len(hs)])

\* Array.prototype.slice(start, end): a negative index counts from the end,
\* and -0 is 0
Slice(q, start, end) ==
    LET n == Len(q)
        from == IF start < 0 THEN (IF n + start > 0 THEN n + start ELSE 0)
                ELSE (IF start < n THEN start ELSE n)
        to == IF end < 0 THEN (IF n + end > 0 THEN n + end ELSE 0)
              ELSE (IF end < n THEN end ELSE n)
    IN SubSeq(q, from + 1, to)

\* Array.prototype.slice(start)
SliceFrom(q, start) == Slice(q, start, Len(q))

\* Array.prototype.reverse
Reverse(q) == [i \in 1..Len(q) |-> q[Len(q) + 1 - i]]

\* getTopMovers with the reversal of the losers left out
getTopMoversLosersNotReversed(holdings, limit) ==
    LET sortedHoldings == SortByPnl(holdings)
        gains(h) == h.pnlPercentage > 0
        losses(h) == h.pnlPercentage < 0
    IN [topGainers |-> Slice(SelectSeq(sortedHoldings, gains), 0, limit),
        topLosers |-> SliceFrom(SelectSeq(sortedHoldings, losses), 0 - limit)]

\* portfolioSchema.methods.getTopMovers
getTopMovers(holdings, limit) ==
    LET sortedHoldings == SortByPnl(holdings)
        gains(h) == h.pnlPercentage > 0
        losses(h) == h.pnlPercentage < 0
    IN [topGainers |-> Slice(SelectSeq(sortedHoldings, gains), 0, limit),
        topLosers |-> Reverse(SliceFrom(SelectSeq(sortedHoldings, losses), 0 - limit))]

\* the portfolio created empty at registration
EmptyPortfolio ==
    [holdings |-> <<>>, totalInvestedValue |-> 0, totalCurrentValue |-> 0,
     totalPnL |-> 0, totalPnLPercentage |-> 0, syncStatus |-> "pending"]

--------------------------------------------------------------------------
(* Inputs of the portfolio routes *)

BrokerHolding(tradingsymbol, exchange, quantity, averageprice, price, ltp) ==
    [tradingsymbol |-> tradingsymbol, exchange |-> exchange, quantity |-> quantity,
     averageprice |-> averageprice, price |-> price, ltp |-> ltp]

\* the records a broker holdings snapshot is drawn from: a gain, a record with
\* only the price field, a loss, a closed position, and zero-cost positions:
\* with a price field of 0, with no price field, and with a price field of 1
BrokerHoldingRecords ==
    { BrokerHolding("INFY", "NSE", 2, 2, Absent, 3),
      BrokerHolding("INFY", "BSE", 1, Absent, 1, Absent),
      BrokerHolding("TCS", "NSE", 1, 2, 1, Absent),
      BrokerHolding("TCS", "NSE", 0, 2, 1, 3),
      BrokerHolding("INFY", "NSE", 1, 0, 0, 3),
      BrokerHolding("TCS", "BSE", 1, 0, Absent, 3),
      BrokerHolding("TCS", "BSE", 1, 0, 1, 3) }

RECURSIVE SeqsUpTo(_, _)
SeqsUpTo(S, n) ==
    IF n = 0 THEN { <<>> }
    ELSE LET shorter == SeqsUpTo(S, n - 1)
         IN shorter \cup { Append(q, x) : q \in shorter, x \in S }

HoldingSnapshots == SeqsUpTo(BrokerHoldingRecords, MaxSnapshot)

\* what smartApiService.getLTP yields: Absent for a failed call, else data.ltp
LtpResults == {Absent, 3}

\* bodies of POST /api/portfolio/holding (a missing field is Absent)
AddHoldingBodies ==
    { [symbol |-> "tcs", exchange |-> "NSE", quantity |-> 2, averagePrice |-> 1],
      [symbol |-> "INFY", exchange |-> "BSE", quantity |-> 0, averagePrice |-> 2],
      [symbol |-> "TCS", exchange |-> "BSE", quantity |-> 1, averagePrice |-> Absent] }

\* String.prototype.toUpperCase on the symbols in use
toUpperCase(str) == IF str = "tcs" THEN "TCS" ELSE IF str = "infy" THEN "INFY" ELSE str

\* :symbol/:exchange parameters of the holding routes
HoldingParams == { <<"INFY", "NSE">>, <<"infy", "BSE">>, <<"TCS", "NSE">>, <<"TCS", "BSE">> }

\* holdings as getTopMovers reads them: the key and the stored pnlPercentage
Mover(symbol, exchange, pnlPercentage) ==
    [symbol |-> symbol, exchange |-> exchange, pnlPercentage |-> pnlPercentage]

\* two gainers and two losers that tie, and a holding at exactly 0
MoverHoldings ==
    { Mover("INFY", "NSE", 10), Mover("TCS", "NSE", 10),
      Mover("INFY", "BSE", -5), Mover("TCS", "BSE", -5),
      Mover("WIPRO", "NSE", 0) }

\* a list of five holdings with P&L% 10, -5, 0, 30, -20
FiveMovers ==
    << Mover("INFY", "NSE", 10), Mover("TCS", "NSE", -5), Mover("WIPRO", "NSE", 0),
       Mover("INFY", "BSE", 30), Mover("TCS", "BSE", -20) >>

\* the holdings lists and the limits getTopMovers is called with
MoverLists == SeqsUpTo(MoverHoldings, MaxMovers) \cup {FiveMovers}

MoverLimits == 0..(MaxLimit + 1)

\* a call of getTopMovers: its arguments and, once it has returned, its result
NoMovers == [holdings |-> <<>>, limit |-> 0, returned |-> FALSE,
             topGainers |-> <<>>, topLosers |-> <<>>]

--------------------------------------------------------------------------
(* Portfolio requests.  A request occupies a slot from its first store read  *)
(* to its response; a step is the code between two awaited store or gateway  *)
(* calls.                                                                    *)

\* previous observes the request: the snapshot of the successful full sync that
\* finished right before it began, as a one-element list, <<>> if there was none
\* saved is the in-memory document as it was read or last saved, against which
\* save() finds the modified paths; stale says that the stored document's
\* version key has been incremented since the request read the document
IdleReq == [pc |-> "idle", doc |-> EmptyPortfolio, found |-> EmptyPortfolio,
            saved |-> EmptyPortfolio, stale |-> FALSE,
            gateway |-> "none", snapshot |-> <<>>, previous |-> <<>>]

\* what is kept of a finished request: the route, how the gateway answered, how
\* the request ended, the data the gateway returned, and (for a failed sync, for
\* a price refresh, and for a sync that repeats the snapshot of the sync before
\* it) the document the request had read
NoRequest == [op |-> "none", gateway |-> "none", outcome |-> "none",
              snapshot |-> <<>>, before |-> EmptyPortfolio, repeat |-> FALSE]

Finished(op, gateway, outcome, snapshot, before) ==
    [op |-> op, gateway |-> gateway, outcome |-> outcome,
     snapshot |-> snapshot, before |-> before, repeat |-> FALSE]

\* the snapshot of the successful full sync among the finished requests
PreviousSync ==
    IF \E t \in Slots : pfLast[t].op = "sync" /\ pfLast[t].outcome = "ok"
    THEN <<pfLast[CHOOSE t \in Slots :
                     pfLast[t].op = "sync" /\ pfLast[t].outcome = "ok"].snapshot>>
    ELSE <<>>

\* requests of one user are issued one at a time
MayStart(s) == \A t \in Slots : pfReq[t].pc = "idle"

NoneFinished == [t \in Slots |-> NoRequest]

\* document.save(): the update carries the modified paths only, the paths
\* whose value differs from the one read or last saved; the other paths keep
\* what is stored.  holdings is what the update leaves in the holdings array
WriteModified(stored, saved, doc, holdings) ==
    [stored EXCEPT
        !.holdings = holdings,
        !.totalInvestedValue = IF doc.totalInvestedValue = saved.totalInvestedValue
                               THEN @ ELSE doc.totalInvestedValue,
        !.totalCurrentValue = IF doc.totalCurrentValue = saved.totalCurrentValue
                              THEN @ ELSE doc.totalCurrentValue,
        !.totalPnL = IF doc.totalPnL = saved.totalPnL THEN @ ELSE doc.totalPnL,
        !.totalPnLPercentage = IF doc.totalPnLPercentage = saved.totalPnLPercentage
                               THEN @ ELSE doc.totalPnLPercentage,
        !.syncStatus = IF doc.syncStatus = saved.syncStatus THEN @ ELSE doc.syncStatus]

\* the versioning of document arrays: an update that sets the holdings array
\* or a path inside one of its elements carries the version key the document
\* was read with, and matches no document (VersionError) once that key has
\* been incremented
VersionError(s, touchesHoldings) == pfReq[s].stale /\ touchesHoldings

\* an update that set the whole holdings array increments the version key:
\* the other requests in flight hold a document of an older version
AfterArrayWrite(reqs, s, arraySet) ==
    [t \in Slots |->
        IF t # s /\ arraySet /\ pfReq[t].pc # "idle"
        THEN [reqs[t] EXCEPT !.stale = TRUE] ELSE reqs[t]]

\* the holdings array after an update that sets currentPrice inside the
\* elements the request changed
ElementsWritten(stored, saved, doc) ==
    [i \in 1..Len(stored.holdings) |->
        IF /\ i <= Len(doc.holdings)
           /\ doc.holdings[i].currentPrice # saved.holdings[i].currentPrice
        THEN [stored.holdings[i] EXCEPT !.currentPrice = doc.holdings[i].currentPrice]
        ELSE stored.holdings[i]]

\* the holdings list the sync loop builds from result.data
RECURSIVE BuildHoldings(_)
BuildHoldings(data) ==
    IF data = <<>> THEN <<>>
    ELSE LET holding == Head(data)
             rest == BuildHoldings(Tail(data))
         IN IF holding.quantity > 0
            THEN <<NewHolding(holding.tradingsymbol, holding.exchange, holding.quantity,
                              ParseFloat(OrElse(holding.averageprice, holding.price)),
                              ParseFloat(OrElse(holding.ltp, holding.price)))>> \o rest
            ELSE rest

\* POST /api/portfolio/sync: findOne
SyncFind(s) ==
    /\ MayStart(s)
    /\ pfReq' = [pfReq EXCEPT ![s] = [IdleReq EXCEPT !.pc = "syncFound",
                                        !.doc = portfolio, !.found = portfolio,
                                        !.saved = portfolio,
                                        !.previous = PreviousSync]]
    /\ pfLast' = NoneFinished
    /\ UNCHANGED <<portfolio, ordVars, movers, ui>>

\* POST /api/portfolio/sync: syncStatus = 'syncing', save
SyncMarkSyncing(s) ==
    /\ pfReq[s].pc = "syncFound"
    /\ LET doc == [pfReq[s].doc EXCEPT !.syncStatus = "syncing"]
       IN /\ portfolio' = WriteModified(portfolio, pfReq[s].saved, doc, portfolio.holdings)
          /\ pfReq' = [pfReq EXCEPT ![s].pc = "syncing", ![s].doc = doc,
                                     ![s].saved = doc]
    /\ UNCHANGED <<pfLast, ordVars, movers, ui>>

\* the failure branch of the sync emptying the holdings before it saves
SyncGatewayFailureClearsHoldings(s) ==
    /\ pfReq[s].pc = "syncing"
    /\ LET doc == calculateTotals([pfReq[s].doc EXCEPT !.syncStatus = "failed",
                                                       !.holdings = <<>>])
       IN /\ portfolio' = WriteModified(portfolio, pfReq[s].saved, doc, doc.holdings)
          /\ pfReq' = [pfReq EXCEPT ![s].pc = "syncCatch", ![s].doc = doc,
                                     ![s].saved = doc, ![s].gateway = "failure"]
    /\ UNCHANGED <<pfLast, ordVars, movers, ui>>

\* POST /api/portfolio/sync: getHoldings reports success=false;
\* syncStatus = 'failed' is saved and the AppError is thrown into the catch
SyncGatewayFailure(s) ==
    /\ pfReq[s].pc = "syncing"
    /\ LET doc == [pfReq[s].doc EXCEPT !.syncStatus = "failed"]
       IN /\ portfolio' = WriteModified(portfolio, pfReq[s].saved, doc, portfolio.holdings)
          /\ pfReq' = [pfReq EXCEPT ![s].pc = "syncCatch", ![s].doc = doc,
                                     ![s].saved = doc, ![s].gateway = "failure"]
    /\ UNCHANGED <<pfLast, ordVars, movers, ui>>

\* POST /api/portfolio/sync: getHoldings throws
SyncGatewayThrows(s) ==
    /\ pfReq[s].pc = "syncing"
    /\ pfReq' = [pfReq EXCEPT ![s].pc = "syncCatch", ![s].gateway = "threw"]
    /\ UNCHANGED <<portfolio, pfLast, ordVars, movers, ui>>

\* POST /api/portfolio/sync: getHoldings succeeds; the holdings are rebuilt,
\* the totals computed and the document saved; a refused save throws into the catch
SyncGatewaySuccess(s) ==
    /\ pfReq[s].pc = "syncing"
    /\ \E data \in HoldingSnapshots :
         LET rebuilt == [pfReq[s].doc EXCEPT !.holdings = BuildHoldings(data)]
             doc == [calculateTotals(rebuilt) EXCEPT !.syncStatus = "completed"]
             \* portfolio.holdings = [] and the pushes set the array, unless it
             \* was empty and stays empty
             arraySet == pfReq[s].saved.holdings # <<>> \/ doc.holdings # <<>>
         IN IF SaveAccepts(doc) /\ ~VersionError(s, arraySet)
            THEN /\ portfolio' = WriteModified(portfolio, pfReq[s].saved, doc,
                                     IF arraySet THEN doc.holdings ELSE portfolio.holdings)
                 /\ pfReq' = AfterArrayWrite([pfReq EXCEPT ![s] = IdleReq], s, arraySet)
                 /\ pfLast' = [pfLast EXCEPT ![s] =
                        IF pfReq[s].previous = <<data>>
                        THEN [Finished("sync", "success", "ok", data, pfReq[s].found)
                                 EXCEPT !.repeat = TRUE]
                        ELSE Finished("sync", "success", "ok", data, EmptyPortfolio)]
            ELSE /\ portfolio' = portfolio
                 /\ pfReq' = [pfReq EXCEPT ![s].pc = "syncCatch", ![s].doc = doc,
                                            ![s].gateway = "success",
                                            ![s].snapshot = data]
                 /\ pfLast' = pfLast
    /\ UNCHANGED <<ordVars, movers, ui>>

\* POST /api/portfolio/sync: the catch block: syncStatus = 'failed', save, rethrow
SyncCatch(s) ==
    /\ pfReq[s].pc = "syncCatch"
    /\ LET doc == [pfReq[s].doc EXCEPT !.syncStatus = "failed"]
           arraySet == /\ pfReq[s].gateway = "success"
                       /\ (pfReq[s].saved.holdings # <<>> \/ doc.holdings # <<>>)
       IN IF SaveAccepts(doc) /\ ~VersionError(s, arraySet)
          THEN /\ portfolio' = WriteModified(portfolio, pfReq[s].saved, doc,
                                   IF arraySet THEN doc.holdings ELSE portfolio.holdings)
               /\ pfReq' = AfterArrayWrite([pfReq EXCEPT ![s] = IdleReq], s, arraySet)
          ELSE /\ portfolio' = portfolio
               /\ pfReq' = [pfReq EXCEPT ![s] = IdleReq]
    /\ pfLast' = [pfLast EXCEPT ![s] =
           Finished("sync", pfReq[s].gateway, "error", pfReq[s].snapshot,
                    pfReq[s].found)]
    /\ UNCHANGED <<ordVars, movers, ui>>

\* POST /api/portfolio/update-prices: findOne; 404 when there are no holdings
PricesFind(s) ==
    /\ MayStart(s)
    /\ IF portfolio.holdings = <<>>
       THEN /\ pfReq' = pfReq
            /\ pfLast' = [NoneFinished EXCEPT ![s] =
                   Finished("prices", "none", "error", <<>>, portfolio)]
       ELSE /\ pfReq' = [pfReq EXCEPT ![s] = [IdleReq EXCEPT !.pc = "pricesFound",
                                               !.doc = portfolio, !.found = portfolio,
                                               !.saved = portfolio]]
            /\ pfLast' = NoneFinished
    /\ UNCHANGED <<portfolio, ordVars, movers, ui>>

\* the priceUpdates list: one entry per instrument whose getLTP call succeeded
RECURSIVE PriceUpdates(_, _, _)
PriceUpdates(hs, ltp, i) ==
    IF i > Len(hs) THEN <<>>
    ELSE IF ltp[i] # Absent
         THEN <<[symbol |-> hs[i].symbol, exchange |-> hs[i].exchange,
                 price |-> ParseFloat(ltp[i])]>> \o PriceUpdates(hs, ltp, i + 1)
         ELSE PriceUpdates(hs, ltp, i + 1)

\* POST /api/portfolio/update-prices: the getLTP calls return (each fails or
\* yields a price), updateCurrentPrices, save
PricesApply(s) ==
    /\ pfReq[s].pc = "pricesFound"
    /\ \E ltp \in [1..Len(pfReq[s].doc.holdings) -> LtpResults] :
         LET priceUpdates == PriceUpdates(pfReq[s].doc.holdings, ltp, 1)
             doc == updateCurrentPrices(pfReq[s].doc, priceUpdates)
         IN IF VersionError(s, priceUpdates # <<>>)
            THEN /\ portfolio' = portfolio
                 /\ pfLast' = [pfLast EXCEPT ![s] =
                        Finished("prices", "success", "error", priceUpdates,
                                 pfReq[s].found)]
            ELSE /\ portfolio' = WriteModified(portfolio, pfReq[s].saved, doc,
                                     ElementsWritten(portfolio, pfReq[s].saved, doc))
                 /\ pfLast' = [pfLast EXCEPT ![s] =
                        Finished("prices", "success", "ok", priceUpdates,
                                 pfReq[s].found)]
    /\ pfReq' = [pfReq EXCEPT ![s] = IdleReq]
    /\ UNCHANGED <<ordVars, movers, ui>>

\* GET /api/portfolio/holding/:symbol/:exchange: the holding is looked up,
\* getLTP is called and, when it succeeds, the price is stored
HoldingRefresh(s) ==
    /\ MayStart(s)
    /\ \E params \in HoldingParams, ltp \in LtpResults :
         LET i == findHoldingIndex(portfolio.holdings, toUpperCase(params[1]),
                                   toUpperCase(params[2]))
             doc == calculateTotals(
                       [portfolio EXCEPT !.holdings[i].currentPrice = ParseFloat(ltp)])
         IN IF i = 0
            THEN /\ portfolio' = portfolio
                 /\ pfLast' = [NoneFinished EXCEPT ![s] =
                        Finished("refresh", "none", "error", <<>>, EmptyPortfolio)]
            ELSE IF ltp = Absent
            THEN /\ portfolio' = portfolio
                 /\ pfLast' = [NoneFinished EXCEPT ![s] =
                        Finished("refresh", "failure", "ok", <<>>, EmptyPortfolio)]
            ELSE /\ portfolio' = doc
                 /\ pfLast' = [NoneFinished EXCEPT ![s] =
                        Finished("refresh", "success", "ok", <<>>, EmptyPortfolio)]
    /\ UNCHANGED <<pfReq, ordVars, movers, ui>>

\* POST /api/portfolio/holding: validation, findOne, getLTP, updateHolding, save
AddHolding(s) ==
    /\ MayStart(s)
    /\ \E body \in AddHoldingBodies, ltp \in LtpResults :
         LET currentPrice == IF ltp # Absent THEN ParseFloat(ltp) ELSE body.averagePrice
             doc == updateHolding(portfolio,
                       [symbol |-> toUpperCase(body.symbol),
                        exchange |-> toUpperCase(body.exchange),
                        quantity |-> body.quantity,
                        averagePrice |-> body.averagePrice,
                        currentPrice |-> currentPrice])
         IN IF \/ ~Truthy(body.quantity) \/ ~Truthy(body.averagePrice)
               \/ body.quantity <= 0 \/ body.averagePrice <= 0
            THEN /\ portfolio' = portfolio
                 /\ pfLast' = [NoneFinished EXCEPT ![s] =
                        Finished("add", "none", "error", <<>>, EmptyPortfolio)]
            ELSE /\ Len(doc.holdings) <= MaxHoldings
                 /\ portfolio' = doc
                 /\ pfLast' = [NoneFinished EXCEPT ![s] =
                        Finished("add", "none", "ok", <<>>, EmptyPortfolio)]
    /\ UNCHANGED <<pfReq, ordVars, movers, ui>>

\* DELETE /api/portfolio/holding/:symbol/:exchange
RemoveHolding(s) ==
    /\ MayStart(s)
    /\ \E params \in HoldingParams :
         LET symbol == toUpperCase(params[1])
             exchange == toUpperCase(params[2])
         IN IF findHoldingIndex(portfolio.holdings, symbol, exchange) = 0
            THEN /\ portfolio' = portfolio
                 /\ pfLast' = [NoneFinished EXCEPT ![s] =
                        Finished("remove", "none", "error", <<>>, EmptyPortfolio)]
            ELSE /\ portfolio' = removeHolding(portfolio, symbol, exchange)
                 /\ pfLast' = [NoneFinished EXCEPT ![s] =
                        Finished("remove", "none", "ok", <<>>, EmptyPortfolio)]
    /\ UNCHANGED <<pfReq, ordVars, movers, ui>>

\* requests issued one at a time all run in the first slot
PortfolioNext ==
    \E s \in {"r1"} :
        \/ SyncFind(s)
        \/ SyncMarkSyncing(s)
        \/ SyncGatewayFailure(s)
        \/ SyncGatewayThrows(s)
        \/ SyncGatewaySuccess(s)
        \/ SyncCatch(s)
        \/ PricesFind(s)
        \/ PricesApply(s)
        \/ HoldingRefresh(s)
        \/ AddHolding(s)
        \/ RemoveHolding(s)

\* a second request of the user arrives while a portfolio request is in flight
StartsDuring(s) ==
    /\ pfReq[s].pc = "idle" /\ pfLast[s] = NoRequest
    /\ \E t \in Slots : pfReq[t].pc # "idle"

\* POST /api/portfolio/sync arriving while a portfolio request is in flight: findOne
SyncFindDuring(s) ==
    /\ StartsDuring(s)
    /\ pfReq' = [pfReq EXCEPT ![s] = [IdleReq EXCEPT !.pc = "syncFound",
                                        !.doc = portfolio, !.found = portfolio,
                                        !.saved = portfolio]]
    /\ pfLast' = [pfLast EXCEPT ![s] = NoRequest]
    /\ UNCHANGED <<portfolio, ordVars, movers, ui>>

\* POST /api/portfolio/update-prices arriving while a portfolio request is in
\* flight: findOne; 404 when there are no holdings
PricesFindDuring(s) ==
    /\ StartsDuring(s)
    /\ IF portfolio.holdings = <<>>
       THEN /\ pfReq' = pfReq
            /\ pfLast' = [pfLast EXCEPT ![s] =
                   Finished("prices", "none", "error", <<>>, portfolio)]
       ELSE /\ pfReq' = [pfReq EXCEPT ![s] = [IdleReq EXCEPT !.pc = "pricesFound",
                                               !.doc = portfolio, !.found = portfolio,
                                               !.saved = portfolio]]
            /\ pfLast' = [pfLast EXCEPT ![s] = NoRequest]
    /\ UNCHANGED <<portfolio, ordVars, movers, ui>>

\* no request has finished yet
NoneInterleaved == pfLast = NoneFinished

\* a full sync or a price refresh, and a second one arriving while the first
\* is in flight
PortfolioConcurrentNext ==
    \/ \E s \in {"r1"} : NoneInterleaved /\ (SyncFind(s) \/ PricesFind(s))
    \/ \E s \in {"r2"} : SyncFindDuring(s) \/ PricesFindDuring(s)
    \/ \E s \in Slots :
          \/ SyncMarkSyncing(s)
          \/ SyncGatewayFailure(s)
          \/ SyncGatewayThrows(s)
          \/ SyncGatewaySuccess(s)
          \/ SyncCatch(s)
          \/ PricesApply(s)

--------------------------------------------------------------------------
(* Order documents (models/Order.js) *)

\* a string field that is null or undefined
Null == "null"

\* orderSchema.status enum
OrderStatuses == {"PENDING", "OPEN", "COMPLETE", "CANCELLED", "REJECTED", "MODIFIED"}

\* a new Order document with the schema defaults
NewOrder(clientOrderId, orderId, symbol, orderType, quantity, price, triggerPrice, status) ==
    [clientOrderId |-> clientOrderId, orderId |-> orderId, brokerOrderId |-> orderId,
     symbol |-> symbol, orderType |-> orderType, quantity |-> quantity,
     price |-> price, triggerPrice |-> triggerPrice, status |-> status,
     filledQuantity |-> 0, averagePrice |-> 0, exchangeOrderId |-> Null,
     rejectionReason |-> Null]

\* schema validation of an Order document on save or create
ValidOrder(doc) ==
    /\ doc.status \in OrderStatuses
    /\ doc.quantity >= 1
    /\ doc.filledQuantity >= 0
    /\ doc.averagePrice >= 0

\* the unique indexes on orderId (sparse) and clientOrderId admit doc at position i
\* (i = 0 for a document that is not stored yet)
IndexesAdmit(docs, doc, i) ==
    \A j \in 1..Len(docs) :
        j # i => /\ docs[j].clientOrderId # doc.clientOrderId
                 /\ doc.orderId = Null \/ docs[j].orderId # doc.orderId

\* Order.create(doc) is accepted
CreateAccepts(docs, doc) == ValidOrder(doc) /\ IndexesAdmit(docs, doc, 0)

\* order.save() of the document stored at position i is accepted
OrderSaveAccepts(docs, doc, i) == ValidOrder(doc) /\ IndexesAdmit(docs, doc, i)

\* position of the document with this clientOrderId, 0 when there is none
RECURSIVE IndexOfClientId(_, _, _)
IndexOfClientId(docs, clientOrderId, i) ==
    IF i > Len(docs) THEN 0
    ELSE IF docs[i].clientOrderId = clientOrderId THEN i
    ELSE IndexOfClientId(docs, clientOrderId, i + 1)

\* a findOne whose second alternative also matches records without a broker id
RECURSIVE FindByBrokerIdOrNone(_, _, _)
FindByBrokerIdOrNone(docs, orderid, i) ==
    IF i > Len(docs) THEN 0
    ELSE IF docs[i].orderId = orderid \/ docs[i].brokerOrderId \in {orderid, Null} THEN i
    ELSE FindByBrokerIdOrNone(docs, orderid, i + 1)

\* Order.findOne({$or: [{orderId}, {brokerOrderId}], userId}): position of the
\* first match, 0 when there is none
RECURSIVE FindByBrokerId(_, _, _)
FindByBrokerId(docs, orderid, i) ==
    IF i > Len(docs) THEN 0
    ELSE IF docs[i].orderId = orderid \/ docs[i].brokerOrderId = orderid THEN i
    ELSE FindByBrokerId(docs, orderid, i + 1)

\* orderSchema.methods.canBeModified
canBeModified(doc) == doc.status \in {"PENDING", "OPEN"}

\* orderSchema.methods.canBeCancelled
canBeCancelled(doc) == doc.status \in {"PENDING", "OPEN"}

\* orderSchema.methods.updateStatus: Object.assign(this, statusData)
updateStatus(doc, statusData) ==
    [doc EXCEPT !.status = statusData.status,
                !.filledQuantity = statusData.filledQuantity,
                !.averagePrice = statusData.averagePrice,
                !.exchangeOrderId = statusData.exchangeOrderId]

--------------------------------------------------------------------------
(* Inputs of the order routes *)

\* a quantity below zero in a request body
Negative == -5

PlaceBody(symbol, orderType, quantity, price, triggerPrice) ==
    [symbol |-> symbol, orderType |-> orderType, quantity |-> quantity,
     price |-> price, triggerPrice |-> triggerPrice]

\* bodies of POST /api/orders; a missing string field is Null, a missing number
\* Absent; the other required fields are always given
PlaceBodies ==
    { PlaceBody("infy", "LIMIT", 2, 5, Absent),
      PlaceBody(Null, "MARKET", 2, Absent, Absent),
      PlaceBody("INFY", "MARKET", Absent, Absent, Absent),
      PlaceBody("INFY", "MARKET", 0, Absent, Absent),
      PlaceBody("INFY", "MARKET", Negative, Absent, Absent),
      PlaceBody("INFY", "LIMIT", 2, Absent, Absent),
      PlaceBody("INFY", "LIMIT", 2, 0, Absent),
      PlaceBody("INFY", "SL", 2, 5, Absent),
      PlaceBody("INFY", "SL-M", 2, Absent, 0),
      PlaceBody("INFY", "SL", Negative, Absent, Absent),
      PlaceBody(Null, "LIMIT", 0, Absent, Absent) }

\* bodies of PUT /api/orders/:orderId: a lower quantity, a quantity below zero,
\* and a change to LIMIT that gives no price
ModifyBody(orderType, quantity, price, triggerPrice) ==
    [orderType |-> orderType, quantity |-> quantity, price |-> price,
     triggerPrice |-> triggerPrice]

ModifyBodies ==
    { ModifyBody(Null, 1, Absent, Absent),
      ModifyBody(Null, Negative, Absent, Absent),
      ModifyBody("LIMIT", Absent, Absent, Absent) }

\* how modifyOrder and cancelOrder may answer
GatewayOutcomes == {"success", "failure", "threw"}

\* what smartApiService.placeOrder may do: accept the order, report
\* success=false with or without a message, or throw
GatewayMessages == {Null, "RMS: margin exceeded"}
ThrownMessage == "socket hang up"

\* the broker order records an order book snapshot is drawn from, for one order
\* id: a filled order, and an order in a status the Order schema has no name for
BrokerOrder(orderid, status, filledshares, averageprice, exchorderid) ==
    [orderid |-> orderid, tradingsymbol |-> "INFY", quantity |-> 2,
     status |-> status, filledshares |-> filledshares,
     averageprice |-> averageprice, exchorderid |-> exchorderid]

BrokerOrderRecords(orderid) ==
    { BrokerOrder(orderid, "COMPLETE", 2, 5, "E1"),
      BrokerOrder(orderid, "trigger pending", Absent, Absent, Null) }

\* the order ids the broker has issued to the user
BrokerIds == { brokerBook[i].orderid : i \in 1..Len(brokerBook) }

\* order book snapshots: any list of records of orders the broker holds
OrderSnapshots ==
    SeqsUpTo(UNION { BrokerOrderRecords(id) : id \in BrokerIds }, MaxOrderSnapshot)

\* the id the broker gives its next order
NextBrokerId == "B" \o ToString(Len(brokerBook) + 1)

--------------------------------------------------------------------------
(* Order requests *)

\* gateway, message and orderid are what placeOrder answered; error is the message
\* of the error on its way to the caller
PlaceIdle == [pc |-> "idle", clientOrderId |-> Null, body |-> PlaceBody(Null, Null, 0, 0, 0),
              gateway |-> "none", message |-> Null, orderid |-> Null, error |-> Null]

\* data is what is left of result.data; ids and refused observe the request: the
\* order ids of the whole snapshot, and those whose synthetic record was refused
SyncIdle == [pc |-> "idle", data |-> <<>>, syncedCount |-> 0, newOrdersCount |-> 0,
             ids |-> {}, refused |-> {}]

\* no Order document
NoOrder == NewOrder(Null, Null, Null, Null, 0, 0, 0, Null)

\* what is kept of a finished order request; for modify and cancel, target is the
\* clientOrderId of the order found and was the document as it was found
NoOrderRequest ==
    [op |-> "none", outcome |-> "none", gateway |-> "none", message |-> Null,
     error |-> Null, target |-> Null, was |-> NoOrder,
     body |-> PlaceBody(Null, Null, 0, 0, 0), clientOrderId |-> Null, orderid |-> Null,
     ids |-> {}, refused |-> {}, syncedCount |-> 0, newOrdersCount |-> 0]

\* requests of one user are issued one at a time
OrdersMayStart == placeReq.pc = "idle" /\ syncReq.pc = "idle"

\* the number of local records made by placement requests
PlacedCount ==
    Cardinality({ i \in 1..Len(orders) : orders[i].clientOrderId # "SYNC_" \o orders[i].orderId })

\* the validation without the price rule
ValidatePlaceNoPriceRule(body) ==
    IF body.symbol = Null \/ ~Truthy(body.quantity)
    THEN "Please provide all required fields"
    ELSE IF body.quantity <= 0
    THEN "Quantity must be positive"
    ELSE IF /\ body.orderType \in {"SL", "SL-M"}
            /\ (~Truthy(body.triggerPrice) \/ body.triggerPrice <= 0)
    THEN "Trigger price is required for SL and SL-M orders"
    ELSE "ok"

\* the validation of POST /api/orders: the message of the AppError thrown, "ok" if none
ValidatePlace(body) ==
    IF body.symbol = Null \/ ~Truthy(body.quantity)
    THEN "Please provide all required fields"
    ELSE IF body.quantity <= 0
    THEN "Quantity must be positive"
    ELSE IF body.orderType \in {"LIMIT", "SL"} /\ (~Truthy(body.price) \/ body.price <= 0)
    THEN "Price is required for LIMIT and SL orders"
    ELSE IF /\ body.orderType \in {"SL", "SL-M"}
            /\ (~Truthy(body.triggerPrice) \/ body.triggerPrice <= 0)
    THEN "Trigger price is required for SL and SL-M orders"
    ELSE "ok"

\* price ? parseFloat(price) : undefined
OptionalPrice(v) == IF Truthy(v) THEN ParseFloat(v) ELSE Absent

\* a placement that goes to the broker before its record is created
PlaceRequestWithoutRecord ==
    /\ OrdersMayStart
    /\ PlacedCount < MaxPlacements
    /\ \E body \in PlaceBodies :
         LET error == ValidatePlace(body)
         IN IF error # "ok"
            THEN /\ placeReq' = placeReq
                 /\ ordLast' = [NoOrderRequest EXCEPT !.op = "place", !.outcome = "invalid",
                                                     !.error = error, !.body = body]
            ELSE /\ placeReq' = [PlaceIdle EXCEPT
                        !.pc = "calling", !.body = body,
                        !.clientOrderId = "ORD_" \o ToString(PlacedCount + 1)]
                 /\ ordLast' = NoOrderRequest
    /\ UNCHANGED <<orders, brokerBook, syncReq, pfVars, movers, ui>>

\* POST /api/orders: validation; then the local record is created PENDING
PlaceRequest ==
    /\ OrdersMayStart
    /\ PlacedCount < MaxPlacements
    /\ \E body \in PlaceBodies :
         LET error == ValidatePlace(body)
             clientOrderId == "ORD_" \o ToString(PlacedCount + 1)
             doc == NewOrder(clientOrderId, Null, toUpperCase(body.symbol), body.orderType,
                             body.quantity, OptionalPrice(body.price),
                             OptionalPrice(body.triggerPrice), "PENDING")
         IN IF error # "ok"
            THEN /\ orders' = orders
                 /\ placeReq' = placeReq
                 /\ ordLast' = [NoOrderRequest EXCEPT !.op = "place", !.outcome = "invalid",
                                                     !.error = error, !.body = body]
            ELSE /\ CreateAccepts(orders, doc)
                 /\ orders' = Append(orders, doc)
                 /\ placeReq' = [PlaceIdle EXCEPT !.pc = "calling", !.body = body,
                                                 !.clientOrderId = clientOrderId]
                 /\ ordLast' = NoOrderRequest
    /\ UNCHANGED <<brokerBook, syncReq, pfVars, movers, ui>>

\* the document of the placement request in flight, and its position
PlacedIndex == IndexOfClientId(orders, placeReq.clientOrderId, 1)

\* a success branch that stores the broker's id in orderId only and leaves the status
PlaceGatewaySuccessKeepsPending ==
    /\ placeReq.pc = "calling"
    /\ Len(brokerBook) < MaxBrokerOrders
    /\ LET i == PlacedIndex
           orderid == NextBrokerId
       IN /\ brokerBook' = Append(brokerBook, [orderid |-> orderid,
                                               clientOrderId |-> placeReq.clientOrderId])
          /\ orders' = [orders EXCEPT ![i].orderId = orderid]
          /\ placeReq' = PlaceIdle
          /\ ordLast' = [NoOrderRequest EXCEPT
                 !.op = "place", !.outcome = "ok", !.gateway = "success",
                 !.body = placeReq.body, !.orderid = orderid,
                 !.clientOrderId = placeReq.clientOrderId]
    /\ UNCHANGED <<syncReq, pfVars, movers, ui>>

\* POST /api/orders: placeOrder succeeds; the broker holds the order; the record
\* is saved OPEN with the broker's id; a refused save throws into the catch
PlaceGatewaySuccess ==
    /\ placeReq.pc = "calling"
    /\ Len(brokerBook) < MaxBrokerOrders
    /\ LET i == PlacedIndex
           orderid == NextBrokerId
           doc == [orders[i] EXCEPT !.orderId = orderid, !.brokerOrderId = orderid,
                                    !.status = "OPEN"]
       IN /\ brokerBook' = Append(brokerBook, [orderid |-> orderid,
                                               clientOrderId |-> placeReq.clientOrderId])
          /\ IF OrderSaveAccepts(orders, doc, i)
             THEN /\ orders' = [orders EXCEPT ![i] = doc]
                  /\ placeReq' = PlaceIdle
                  /\ ordLast' = [NoOrderRequest EXCEPT
                         !.op = "place", !.outcome = "ok", !.gateway = "success",
                         !.body = placeReq.body, !.orderid = orderid,
                         !.clientOrderId = placeReq.clientOrderId]
             ELSE /\ orders' = orders
                  /\ placeReq' = [placeReq EXCEPT !.pc = "catch", !.gateway = "success",
                                                  !.orderid = orderid,
                                                  !.error = "E11000 duplicate key"]
                  /\ ordLast' = ordLast
    /\ UNCHANGED <<syncReq, pfVars, movers, ui>>

\* POST /api/orders: placeOrder reports success=false; the record is saved
\* REJECTED and the AppError is thrown into the catch
PlaceGatewayFailure ==
    /\ placeReq.pc = "calling"
    /\ \E message \in GatewayMessages :
         LET i == PlacedIndex
             doc == [orders[i] EXCEPT
                        !.status = "REJECTED",
                        !.rejectionReason = IF message # Null THEN message
                                            ELSE "Order placement failed"]
         IN /\ orders' = [orders EXCEPT ![i] = doc]
            /\ placeReq' = [placeReq EXCEPT
                   !.pc = "catch", !.gateway = "failure", !.message = message,
                   !.error = IF message # Null THEN message ELSE "Failed to place order"]
    /\ UNCHANGED <<brokerBook, syncReq, ordLast, pfVars, movers, ui>>

\* POST /api/orders: placeOrder throws
PlaceGatewayThrows ==
    /\ placeReq.pc = "calling"
    /\ placeReq' = [placeReq EXCEPT !.pc = "catch", !.gateway = "threw",
                                    !.message = ThrownMessage,
                                    !.error = ThrownMessage]
    /\ UNCHANGED <<orders, brokerBook, syncReq, ordLast, pfVars, movers, ui>>

\* a catch block that only rethrows
PlaceCatchOnlyRethrows ==
    /\ placeReq.pc = "catch"
    /\ placeReq' = PlaceIdle
    /\ ordLast' = [NoOrderRequest EXCEPT
           !.op = "place", !.outcome = "error", !.gateway = placeReq.gateway,
           !.message = placeReq.message, !.error = placeReq.error, !.body = placeReq.body,
           !.orderid = placeReq.orderid, !.clientOrderId = placeReq.clientOrderId]
    /\ UNCHANGED <<orders, brokerBook, syncReq, pfVars, movers, ui>>

\* POST /api/orders: the catch block: status REJECTED with error.message, save, rethrow
PlaceCatch ==
    /\ placeReq.pc = "catch"
    /\ LET i == PlacedIndex
           current == IF placeReq.gateway = "success"
                      THEN [orders[i] EXCEPT !.orderId = placeReq.orderid,
                                             !.brokerOrderId = placeReq.orderid]
                      ELSE orders[i]
           doc == [current EXCEPT !.status = "REJECTED",
                                  !.rejectionReason = placeReq.error]
       IN orders' = IF OrderSaveAccepts(orders, doc, i)
                    THEN [orders EXCEPT ![i] = doc] ELSE orders
    /\ placeReq' = PlaceIdle
    /\ ordLast' = [NoOrderRequest EXCEPT
           !.op = "place", !.outcome = "error", !.gateway = placeReq.gateway,
           !.message = placeReq.message, !.error = placeReq.error, !.body = placeReq.body,
           !.orderid = placeReq.orderid, !.clientOrderId = placeReq.clientOrderId]
    /\ UNCHANGED <<brokerBook, syncReq, pfVars, movers, ui>>

\* the validation of PUT /api/orders/:orderId: the message of the AppError, "ok" if none
ValidateModify(body) ==
    IF Truthy(body.quantity) /\ body.quantity <= 0
    THEN "Quantity must be positive"
    ELSE IF body.orderType \in {"LIMIT", "SL"} /\ (~Truthy(body.price) \/ body.price <= 0)
    THEN "Price is required for LIMIT and SL orders"
    ELSE IF /\ body.orderType \in {"SL", "SL-M"}
            /\ (~Truthy(body.triggerPrice) \/ body.triggerPrice <= 0)
    THEN "Trigger price is required for SL and SL-M orders"
    ELSE "ok"

\* the fields a successful modification writes
Modified(doc, body) ==
    [doc EXCEPT !.orderType = IF body.orderType # Null THEN body.orderType ELSE @,
                !.quantity = IF Truthy(body.quantity) THEN body.quantity ELSE @,
                !.price = IF Truthy(body.price) THEN ParseFloat(body.price) ELSE @,
                !.triggerPrice = IF Truthy(body.triggerPrice)
                                 THEN ParseFloat(body.triggerPrice) ELSE @,
                !.status = "MODIFIED"]

\* what is kept of a finished modify or cancel request on the order at position i
\* (0: no order found)
ChangeFinished(op, outcome, gateway, i) ==
    [NoOrderRequest EXCEPT
        !.op = op, !.outcome = outcome, !.gateway = gateway,
        !.target = IF i = 0 THEN Null ELSE orders[i].clientOrderId,
        !.was = IF i = 0 THEN NoOrder ELSE orders[i]]

\* PUT /api/orders/:orderId: findOne, the status check, validation, modifyOrder,
\* and on success the new fields saved with status MODIFIED
ModifyOrder ==
    /\ OrdersMayStart
    /\ \E i \in 0..Len(orders), body \in ModifyBodies, gateway \in GatewayOutcomes :
         IF i = 0
         THEN /\ orders' = orders
              /\ ordLast' = ChangeFinished("modify", "error", "none", i)
         ELSE IF ~canBeModified(orders[i])
         THEN /\ orders' = orders
              /\ ordLast' = ChangeFinished("modify", "error", "none", i)
         ELSE IF ValidateModify(body) # "ok"
         THEN /\ orders' = orders
              /\ ordLast' = ChangeFinished("modify", "invalid", "none", i)
         ELSE IF gateway = "success" /\ OrderSaveAccepts(orders, Modified(orders[i], body), i)
         THEN /\ orders' = [orders EXCEPT ![i] = Modified(orders[i], body)]
              /\ ordLast' = ChangeFinished("modify", "ok", gateway, i)
         ELSE /\ orders' = orders
              /\ ordLast' = ChangeFinished("modify", "error", gateway, i)
    /\ UNCHANGED <<brokerBook, placeReq, syncReq, pfVars, movers, ui>>

\* CancelOrder with the record marked CANCELLED whatever the broker answers
CancelOrderDespiteFailure ==
    /\ OrdersMayStart
    /\ \E i \in 0..Len(orders), gateway \in GatewayOutcomes :
         IF i = 0
         THEN /\ orders' = orders
              /\ ordLast' = ChangeFinished("cancel", "error", "none", i)
         ELSE IF ~canBeCancelled(orders[i])
         THEN /\ orders' = orders
              /\ ordLast' = ChangeFinished("cancel", "error", "none", i)
         ELSE /\ orders' = [orders EXCEPT ![i].status = "CANCELLED"]
              /\ ordLast' = ChangeFinished("cancel", IF gateway = "success" THEN "ok" ELSE "error",
                                           gateway, i)
    /\ UNCHANGED <<brokerBook, placeReq, syncReq, pfVars, movers, ui>>

\* DELETE /api/orders/:orderId: findOne, the status check, cancelOrder, and on
\* success status CANCELLED saved
CancelOrder ==
    /\ OrdersMayStart
    /\ \E i \in 0..Len(orders), gateway \in GatewayOutcomes :
         IF i = 0
         THEN /\ orders' = orders
              /\ ordLast' = ChangeFinished("cancel", "error", "none", i)
         ELSE IF ~canBeCancelled(orders[i])
         THEN /\ orders' = orders
              /\ ordLast' = ChangeFinished("cancel", "error", "none", i)
         ELSE IF gateway = "success"
         THEN /\ orders' = [orders EXCEPT ![i].status = "CANCELLED"]
              /\ ordLast' = ChangeFinished("cancel", "ok", gateway, i)
         ELSE /\ orders' = orders
              /\ ordLast' = ChangeFinished("cancel", "error", gateway, i)
    /\ UNCHANGED <<brokerBook, placeReq, syncReq, pfVars, movers, ui>>

\* an order placed with the broker outside this application
BrokerOutsideOrder ==
    /\ OrdersMayStart
    /\ Len(brokerBook) < MaxBrokerOrders
    /\ brokerBook' = Append(brokerBook, [orderid |-> NextBrokerId, clientOrderId |-> Null])
    /\ UNCHANGED <<orders, placeReq, syncReq, ordLast, pfVars, movers, ui>>

\* POST /api/orders/sync: getOrderBook fails or throws: the error is rethrown
OrderSyncGatewayFails ==
    /\ OrdersMayStart
    /\ \E gateway \in {"failure", "threw"} :
         ordLast' = [NoOrderRequest EXCEPT !.op = "sync", !.outcome = "error",
                                           !.gateway = gateway]
    /\ UNCHANGED <<orders, brokerBook, placeReq, syncReq, pfVars, movers, ui>>

\* POST /api/orders/sync: getOrderBook returns the snapshot
OrderSyncFetch ==
    /\ OrdersMayStart
    /\ \E data \in OrderSnapshots :
         syncReq' = [SyncIdle EXCEPT
                        !.pc = "loop", !.data = data,
                        !.ids = { data[i].orderid : i \in 1..Len(data) }]
    /\ ordLast' = NoOrderRequest
    /\ UNCHANGED <<orders, brokerBook, placeReq, pfVars, movers, ui>>

\* the statusData the sync applies to a known order
StatusData(brokerOrder) ==
    [status |-> brokerOrder.status,
     filledQuantity |-> OrElse(brokerOrder.filledshares, 0),
     averagePrice |-> OrElse(brokerOrder.averageprice, 0),
     exchangeOrderId |-> brokerOrder.exchorderid]

\* a synthetic record that does not carry the broker's order id
SyncedOrderWithoutBrokerId(brokerOrder) ==
    [NewOrder("SYNC_" \o brokerOrder.orderid, Null,
              brokerOrder.tradingsymbol, "MARKET", brokerOrder.quantity, 0, 0,
              brokerOrder.status)
       EXCEPT !.filledQuantity = OrElse(brokerOrder.filledshares, 0),
              !.averagePrice = OrElse(brokerOrder.averageprice, 0),
              !.exchangeOrderId = brokerOrder.exchorderid]

\* the synthetic record the sync creates for an unknown broker order
SyncedOrder(brokerOrder) ==
    [NewOrder("SYNC_" \o brokerOrder.orderid, brokerOrder.orderid,
              brokerOrder.tradingsymbol, "MARKET", brokerOrder.quantity, 0, 0,
              brokerOrder.status)
       EXCEPT !.filledQuantity = OrElse(brokerOrder.filledshares, 0),
              !.averagePrice = OrElse(brokerOrder.averageprice, 0),
              !.exchangeOrderId = brokerOrder.exchorderid]

\* what is kept of a finished order sync
SyncFinished(outcome) ==
    [NoOrderRequest EXCEPT !.op = "sync", !.outcome = outcome, !.gateway = "success",
                           !.ids = syncReq.ids, !.refused = syncReq.refused,
                           !.syncedCount = syncReq.syncedCount,
                           !.newOrdersCount = syncReq.newOrdersCount]

\* a loop turn in which a refused create ends the request with the error
OrderSyncStepCreateAborts ==
    /\ syncReq.pc = "loop"
    /\ syncReq.data # <<>>
    /\ LET brokerOrder == Head(syncReq.data)
           k == FindByBrokerId(orders, brokerOrder.orderid, 1)
           updated == updateStatus(orders[k], StatusData(brokerOrder))
           created == SyncedOrder(brokerOrder)
       IN IF k # 0
          THEN IF OrderSaveAccepts(orders, updated, k)
               THEN /\ orders' = [orders EXCEPT ![k] = updated]
                    /\ syncReq' = [syncReq EXCEPT !.data = Tail(@), !.syncedCount = @ + 1]
                    /\ ordLast' = ordLast
               ELSE /\ orders' = orders
                    /\ syncReq' = SyncIdle
                    /\ ordLast' = SyncFinished("error")
          ELSE IF CreateAccepts(orders, created)
               THEN /\ orders' = Append(orders, created)
                    /\ syncReq' = [syncReq EXCEPT !.data = Tail(@),
                                                  !.newOrdersCount = @ + 1]
                    /\ ordLast' = ordLast
               ELSE /\ orders' = orders
                    /\ syncReq' = SyncIdle
                    /\ ordLast' = [SyncFinished("error") EXCEPT
                           !.refused = @ \cup {brokerOrder.orderid}]
    /\ UNCHANGED <<brokerBook, placeReq, pfVars, movers, ui>>

\* POST /api/orders/sync: one turn of the loop over result.data: a known order is
\* updated (a refused save ends the request with the error), an unknown one is
\* created (a refused create is logged and skipped)
OrderSyncStep ==
    /\ syncReq.pc = "loop"
    /\ syncReq.data # <<>>
    /\ LET brokerOrder == Head(syncReq.data)
           k == FindByBrokerId(orders, brokerOrder.orderid, 1)
           updated == updateStatus(orders[k], StatusData(brokerOrder))
           created == SyncedOrder(brokerOrder)
       IN IF k # 0
          THEN IF OrderSaveAccepts(orders, updated, k)
               THEN /\ orders' = [orders EXCEPT ![k] = updated]
                    /\ syncReq' = [syncReq EXCEPT !.data = Tail(@), !.syncedCount = @ + 1]
                    /\ ordLast' = ordLast
               ELSE /\ orders' = orders
                    /\ syncReq' = SyncIdle
                    /\ ordLast' = SyncFinished("error")
          ELSE IF CreateAccepts(orders, created)
               THEN /\ orders' = Append(orders, created)
                    /\ syncReq' = [syncReq EXCEPT !.data = Tail(@),
                                                  !.newOrdersCount = @ + 1]
                    /\ ordLast' = ordLast
               ELSE /\ orders' = orders
                    /\ syncReq' = [syncReq EXCEPT
                           !.data = Tail(@),
                           !.refused = @ \cup {brokerOrder.orderid}]
                    /\ ordLast' = ordLast
    /\ UNCHANGED <<brokerBook, placeReq, pfVars, movers, ui>>

\* POST /api/orders/sync: the loop is over: the response with the counts
OrderSyncRespond ==
    /\ syncReq.pc = "loop"
    /\ syncReq.data = <<>>
    /\ syncReq' = SyncIdle
    /\ ordLast' = SyncFinished("ok")
    /\ UNCHANGED <<orders, brokerBook, placeReq, pfVars, movers, ui>>

OrdersNext ==
    \/ PlaceRequest
    \/ PlaceGatewaySuccess
    \/ PlaceGatewayFailure
    \/ PlaceGatewayThrows
    \/ PlaceCatch
    \/ ModifyOrder
    \/ CancelOrder
    \/ BrokerOutsideOrder
    \/ OrderSyncGatewayFails
    \/ OrderSyncFetch
    \/ OrderSyncStep
    \/ OrderSyncRespond

\* POST /api/orders: the broker has accepted the order and given it its id; the
\* answer of placeOrder is on its way to the handler
PlaceBrokerAccepts ==
    /\ placeReq.pc = "calling"
    /\ Len(brokerBook) < MaxBrokerOrders
    /\ brokerBook' = Append(brokerBook, [orderid |-> NextBrokerId,
                                         clientOrderId |-> placeReq.clientOrderId])
    /\ placeReq' = [placeReq EXCEPT !.pc = "accepted", !.gateway = "success",
                                    !.orderid = NextBrokerId]
    /\ UNCHANGED <<orders, syncReq, ordLast, pfVars, movers, ui>>

\* POST /api/orders: placeOrder returns success; the record is saved OPEN with
\* the broker's id; a refused save throws into the catch
PlaceAcceptedReturns ==
    /\ placeReq.pc = "accepted"
    /\ LET i == PlacedIndex
           doc == [orders[i] EXCEPT !.orderId = placeReq.orderid,
                                    !.brokerOrderId = placeReq.orderid,
                                    !.status = "OPEN"]
       IN IF OrderSaveAccepts(orders, doc, i)
          THEN /\ orders' = [orders EXCEPT ![i] = doc]
               /\ placeReq' = PlaceIdle
               /\ ordLast' = [NoOrderRequest EXCEPT
                      !.op = "place", !.outcome = "ok", !.gateway = "success",
                      !.body = placeReq.body, !.orderid = placeReq.orderid,
                      !.clientOrderId = placeReq.clientOrderId]
          ELSE /\ orders' = orders
               /\ placeReq' = [placeReq EXCEPT !.pc = "catch",
                                               !.error = "E11000 duplicate key"]
               /\ ordLast' = ordLast
    /\ UNCHANGED <<brokerBook, syncReq, pfVars, movers, ui>>

\* POST /api/orders/sync arriving while a placement request is in flight:
\* getOrderBook returns the snapshot
OrderSyncFetchDuringPlacement ==
    /\ syncReq.pc = "idle"
    /\ placeReq.pc # "idle"
    /\ \E data \in OrderSnapshots :
         syncReq' = [SyncIdle EXCEPT
                        !.pc = "loop", !.data = data,
                        !.ids = { data[i].orderid : i \in 1..Len(data) }]
    /\ ordLast' = NoOrderRequest
    /\ UNCHANGED <<orders, brokerBook, placeReq, pfVars, movers, ui>>

\* a placement request and an order sync of the user in flight together
OrdersConcurrentNext ==
    \/ OrdersNext
    \/ PlaceBrokerAccepts
    \/ PlaceAcceptedReturns
    \/ OrderSyncFetchDuringPlacement

--------------------------------------------------------------------------
(* The browser pages that issue portfolio syncs: DashboardManager            *)
(* (public/js/config.js) and PortfolioManager.  A step is the code between   *)
(* two awaited API calls or user events.                                     *)

\* the pages as constructed: nothing loaded or rendered, no call in flight.
\* dashboard: isLoading, the click listeners on #syncPortfolio and its disabled
\* flag, whether the portfolio-sync alert is shown, the API.syncPortfolio calls
\* in flight, and whether a syncPortfolio call awaits the load it started.
\* portfolio page: isLoading, the sync buttons of the rendered section ("none"
\* when the section shows no button), the call in flight that holds those
\* buttons, and the calls in flight that hold buttons no longer in the document
PagesOpened ==
    [dashIsLoading |-> FALSE, syncListeners |-> 0, syncDisabled |-> FALSE,
     alertShown |-> FALSE, dashCalls |-> 0, dashReloading |-> FALSE,
     pfIsLoading |-> FALSE, pfButtons |-> "none", pfCallAttached |-> FALSE,
     pfCallsDetached |-> 0]

\* the API.syncPortfolio calls in flight
CallsInFlight ==
    ui.dashCalls + ui.pfCallsDetached + (IF ui.pfCallAttached THEN 1 ELSE 0)

\* DashboardManager.load (init, the refresh button, the refresh interval, the
\* retry button): returns at once when a load is in progress
DashboardLoad ==
    /\ ~ui.dashIsLoading
    /\ ui.syncListeners < MaxListeners
    /\ ui' = [ui EXCEPT !.dashIsLoading = TRUE]
    /\ UNCHANGED <<pfVars, ordVars, movers>>

\* DashboardManager.load: API.getDashboard returns.  On success render():
\* updateSyncButton adds a click listener to #syncPortfolio, renderAlerts
\* empties the alerts container and shows the portfolio-sync alert if the
\* dashboard data asks for it; on failure showError replaces the grid, the
\* alerts container with it.  A syncPortfolio call that awaited this load
\* goes on to its finally block and enables the button
DashboardLoadReturns ==
    /\ ui.dashIsLoading
    /\ \E success \in BOOLEAN, portfolioSync \in BOOLEAN :
         ui' = [ui EXCEPT
                  !.dashIsLoading = FALSE,
                  !.syncListeners = IF success THEN @ + 1 ELSE @,
                  !.alertShown = success /\ portfolioSync,
                  !.syncDisabled = IF ui.dashReloading THEN FALSE ELSE @,
                  !.dashReloading = FALSE]
    /\ UNCHANGED <<pfVars, ordVars, movers>>

\* a click on #syncPortfolio: every listener runs syncPortfolio up to its
\* await: the button is disabled and API.syncPortfolio is called
DashboardSyncClick ==
    /\ ~ui.syncDisabled
    /\ ui.syncListeners >= 1
    /\ CallsInFlight + ui.syncListeners <= MaxCalls
    /\ ui' = [ui EXCEPT !.syncDisabled = TRUE, !.dashCalls = @ + ui.syncListeners]
    /\ UNCHANGED <<pfVars, ordVars, movers>>

\* a click on the action button of the portfolio-sync alert: syncPortfolio
\* runs up to its await and the alert is removed
AlertActionClick ==
    /\ ui.alertShown
    /\ CallsInFlight < MaxCalls
    /\ ui' = [ui EXCEPT !.syncDisabled = TRUE, !.dashCalls = @ + 1,
                        !.alertShown = FALSE]
    /\ UNCHANGED <<pfVars, ordVars, movers>>

\* DashboardManager.syncPortfolio: API.syncPortfolio returns or throws.  On
\* success await this.load(), which starts a load unless one is in progress;
\* then the finally block enables the button
DashboardSyncReturns ==
    /\ ui.dashCalls > 0
    /\ \E success \in BOOLEAN :
         IF success /\ ~ui.dashIsLoading
         THEN /\ ui.syncListeners < MaxListeners
              /\ ui' = [ui EXCEPT !.dashCalls = @ - 1, !.dashIsLoading = TRUE,
                                  !.dashReloading = TRUE]
         ELSE ui' = [ui EXCEPT !.dashCalls = @ - 1, !.syncDisabled = FALSE]
    /\ UNCHANGED <<pfVars, ordVars, movers>>

\* PortfolioManager.load (navigation, the refresh interval, the retry button):
\* showLoadingState replaces the section, its buttons included
PortfolioLoad ==
    /\ ~ui.pfIsLoading
    /\ ui' = [ui EXCEPT
                !.pfIsLoading = TRUE, !.pfButtons = "none",
                !.pfCallAttached = FALSE,
                !.pfCallsDetached = IF ui.pfCallAttached THEN @ + 1 ELSE @]
    /\ UNCHANGED <<pfVars, ordVars, movers>>

\* PortfolioManager.load: API.getPortfolio returns.  On success render()
\* writes the section anew and setupEventListeners gives the new sync buttons
\* their click listener; on failure showError writes a section without them
PortfolioLoadReturns ==
    /\ ui.pfIsLoading
    /\ \E success \in BOOLEAN :
         ui' = [ui EXCEPT !.pfIsLoading = FALSE,
                          !.pfButtons = IF success THEN "enabled" ELSE "none"]
    /\ UNCHANGED <<pfVars, ordVars, movers>>

\* a click on #syncPortfolioBtn or #syncPortfolioEmpty: syncPortfolio disables
\* the buttons it finds in the document and calls API.syncPortfolio
PortfolioSyncClick ==
    /\ ui.pfButtons = "enabled"
    /\ CallsInFlight < MaxCalls
    /\ ui' = [ui EXCEPT !.pfButtons = "disabled", !.pfCallAttached = TRUE]
    /\ UNCHANGED <<pfVars, ordVars, movers>>

\* PortfolioManager.syncPortfolio: API.syncPortfolio returns or throws.  On
\* success await this.load(); the finally block enables the buttons the call
\* had found, which shows only if they are still in the document
PortfolioSyncReturns ==
    /\ \E attached \in BOOLEAN, success \in BOOLEAN :
         /\ IF attached THEN ui.pfCallAttached ELSE ui.pfCallsDetached > 0
         /\ IF attached
            THEN IF success
                 THEN ui' = [ui EXCEPT !.pfCallAttached = FALSE, !.pfIsLoading = TRUE,
                                       !.pfButtons = "none"]
                 ELSE ui' = [ui EXCEPT !.pfCallAttached = FALSE, !.pfButtons = "enabled"]
            ELSE IF success /\ ~ui.pfIsLoading
                 THEN ui' = [ui EXCEPT !.pfCallsDetached = @ - 1, !.pfIsLoading = TRUE,
                                       !.pfButtons = "none"]
                 ELSE ui' = [ui EXCEPT !.pfCallsDetached = @ - 1]
    /\ UNCHANGED <<pfVars, ordVars, movers>>

SyncUiNext ==
    \/ DashboardLoad
    \/ DashboardLoadReturns
    \/ DashboardSyncClick
    \/ AlertActionClick
    \/ DashboardSyncReturns
    \/ PortfolioLoad
    \/ PortfolioLoadReturns
    \/ PortfolioSyncClick
    \/ PortfolioSyncReturns

\* the state after registration: an empty portfolio, no orders, no request in flight
Init ==
    /\ portfolio = EmptyPortfolio
    /\ pfReq = [s \in Slots |-> IdleReq]
    /\ pfLast = NoneFinished
    /\ orders = <<>>
    /\ brokerBook = <<>>
    /\ placeReq = PlaceIdle
    /\ syncReq = SyncIdle
    /\ ordLast = NoOrderRequest
    /\ movers = NoMovers
    /\ ui = PagesOpened

\* the portfolio routes, the order collection left alone
SpecPortfolio == Init /\ [][PortfolioNext]_vars

\* the order routes, the portfolio left alone
SpecOrders == Init /\ [][OrdersNext]_vars

\* a portfolio document about to be asked for its top movers
InitMovers ==
    /\ portfolio = EmptyPortfolio
    /\ pfReq = [s \in Slots |-> IdleReq]
    /\ pfLast = NoneFinished
    /\ orders = <<>>
    /\ brokerBook = <<>>
    /\ placeReq = PlaceIdle
    /\ syncReq = SyncIdle
    /\ ordLast = NoOrderRequest
    /\ ui = PagesOpened
    /\ \E holdings \in MoverLists, limit \in MoverLimits :
         movers = [NoMovers EXCEPT !.holdings = holdings, !.limit = limit]

\* portfolio.getTopMovers(limit) is called and returns
TopMovers ==
    /\ ~movers.returned
    /\ LET result == getTopMovers(movers.holdings, movers.limit)
       IN movers' = [movers EXCEPT !.returned = TRUE,
                                   !.topGainers = result.topGainers,
                                   !.topLosers = result.topLosers]
    /\ UNCHANGED <<pfVars, ordVars, ui>>

MoversNext == TopMovers

\* the order routes with a placement and a sync interleaved
SpecOrdersConcurrent == Init /\ [][OrdersConcurrentNext]_vars

\* getTopMovers on its own, over the lists and limits above
SpecMovers == InitMovers /\ [][MoversNext]_vars

\* a portfolio document as a successful full sync has stored it
InitSynced ==
    /\ \E data \in HoldingSnapshots :
         /\ portfolio = [calculateTotals([EmptyPortfolio EXCEPT
                                             !.holdings = BuildHoldings(data)])
                           EXCEPT !.syncStatus = "completed"]
         /\ SaveAccepts(portfolio)
    /\ pfReq = [s \in Slots |-> IdleReq]
    /\ pfLast = NoneFinished
    /\ orders = <<>>
    /\ brokerBook = <<>>
    /\ placeReq = PlaceIdle
    /\ syncReq = SyncIdle
    /\ ordLast = NoOrderRequest
    /\ movers = NoMovers
    /\ ui = PagesOpened

\* the portfolio routes with two requests interleaved, after a full sync
SpecPortfolioConcurrent == InitSynced /\ [][PortfolioConcurrentNext]_vars

\* the browser pages on their own
SpecSyncUi == Init /\ [][SyncUiNext]_vars

--------------------------------------------------------------------------
(* Claims about the portfolio routes, checked under SpecPortfolio *)

\* sum over the stored holdings of quantity x price, by index
RECURSIVE FoldHoldings(_, _, _)
FoldHoldings(hs, field, n) ==
    IF n = 0 THEN 0
    ELSE hs[n].quantity * hs[n][field] + FoldHoldings(hs, field, n - 1)

FoldInvested == FoldHoldings(portfolio.holdings, "averagePrice", Len(portfolio.holdings))
FoldCurrent  == FoldHoldings(portfolio.holdings, "currentPrice", Len(portfolio.holdings))

\* C1: in every stored portfolio state the four aggregates equal the fold over
\* the stored holdings: invested = sum of quantity x averagePrice, current = sum
\* of quantity x currentPrice, P&L = current - invested, and P&L% =
\* P&L / invested x 100, which is 0 whenever invested is 0.
C1_TotalsAreFold ==
    /\ portfolio.totalInvestedValue = FoldInvested
    /\ portfolio.totalCurrentValue = FoldCurrent
    /\ portfolio.totalPnL = FoldCurrent - FoldInvested
    /\ portfolio.totalPnLPercentage =
          IF FoldInvested = 0 THEN 0
          ELSE Percent(FoldCurrent - FoldInvested, FoldInvested)

\* a removal has left a non-empty list whose P&L is not zero
C1_Witness ==
    /\ \E s \in Slots : pfLast[s].op = "remove" /\ pfLast[s].outcome = "ok"
    /\ portfolio.holdings # <<>>
    /\ portfolio.totalPnL # 0

\* the broker records with quantity > 0, as (symbol, exchange, quantity)
RECURSIVE HeldRecords(_)
HeldRecords(data) ==
    IF data = <<>> THEN <<>>
    ELSE IF Head(data).quantity > 0
         THEN <<[symbol |-> Head(data).tradingsymbol, exchange |-> Head(data).exchange,
                 quantity |-> Head(data).quantity]>> \o HeldRecords(Tail(data))
         ELSE HeldRecords(Tail(data))

StoredPositions ==
    [i \in 1..Len(portfolio.holdings) |->
        [symbol |-> portfolio.holdings[i].symbol,
         exchange |-> portfolio.holdings[i].exchange,
         quantity |-> portfolio.holdings[i].quantity]]

\* C2: after a full sync whose broker holdings call succeeded, the stored
\* holdings list consists of exactly the snapshot's records with quantity > 0,
\* one holding per such record.
C2_SyncReplacesHoldings ==
    \A s \in Slots :
        (pfLast[s].op = "sync" /\ pfLast[s].gateway = "success")
            => StoredPositions = HeldRecords(pfLast[s].snapshot)

\* C3: if the broker holdings call of a full sync fails (success=false, or it
\* throws), the stored holdings and totals are exactly what they were before
\* the sync attempt, and the stored syncStatus is failed.
C3_FailedSyncKeepsHoldings ==
    \A s \in Slots :
        (pfLast[s].op = "sync" /\ pfLast[s].gateway \in {"failure", "threw"})
            => /\ portfolio = [pfLast[s].before EXCEPT !.syncStatus = "failed"]
               /\ pfLast[s].outcome = "error"

\* a sync whose gateway call threw has finished on a portfolio that holds something
C3_Witness ==
    \E s \in Slots :
        /\ pfLast[s].op = "sync"
        /\ pfLast[s].gateway = "threw"
        /\ pfLast[s].before.holdings # <<>>

\* the fetched price updates that carry the key of holding h
UpdatesFor(priceUpdates, h) ==
    { k \in 1..Len(priceUpdates) :
        priceUpdates[k].symbol = h.symbol /\ priceUpdates[k].exchange = h.exchange }

\* C16: a price refresh changes only the currentPrice of holdings whose
\* (symbol, exchange) has an entry in the fetched price updates: it adds and
\* removes no holding, changes no quantity or averagePrice, and a holding with
\* no matching update keeps its price while the others get theirs.
C16_PriceRefreshFrame ==
    \A s \in Slots :
        (pfLast[s].op = "prices" /\ pfLast[s].outcome = "ok") =>
            LET was == pfLast[s].before.holdings
                now == portfolio.holdings
            IN /\ Len(now) = Len(was)
               /\ \A i \in 1..Len(was) :
                     /\ now[i].symbol = was[i].symbol
                     /\ now[i].exchange = was[i].exchange
                     /\ now[i].quantity = was[i].quantity
                     /\ now[i].averagePrice = was[i].averagePrice
                     /\ IF UpdatesFor(pfLast[s].snapshot, was[i]) = {}
                        THEN now[i].currentPrice = was[i].currentPrice
                        ELSE \E k \in UpdatesFor(pfLast[s].snapshot, was[i]) :
                                now[i].currentPrice = pfLast[s].snapshot[k].price

\* a price refresh has finished in which one holding got a new price and
\* another, whose LTP fetch failed, kept a price that is not the fetched one
C16_Witness ==
    \E s \in Slots :
        /\ pfLast[s].op = "prices" /\ pfLast[s].outcome = "ok"
        /\ \E i, j \in 1..Len(portfolio.holdings) :
              /\ UpdatesFor(pfLast[s].snapshot, portfolio.holdings[i]) = {}
              /\ portfolio.holdings[i].currentPrice # portfolio.holdings[j].currentPrice
              /\ UpdatesFor(pfLast[s].snapshot, portfolio.holdings[j]) # {}
              /\ portfolio.holdings[j].currentPrice # pfLast[s].before.holdings[j].currentPrice

\* the fields of a holdings list that a full sync writes
SyncedFields(hs) ==
    [i \in 1..Len(hs) |->
        [symbol |-> hs[i].symbol, exchange |-> hs[i].exchange,
         quantity |-> hs[i].quantity, averagePrice |-> hs[i].averagePrice,
         currentPrice |-> hs[i].currentPrice]]

FourTotals(doc) ==
    <<doc.totalInvestedValue, doc.totalCurrentValue, doc.totalPnL, doc.totalPnLPercentage>>

\* C17: a successful full sync run right after a successful full sync with the
\* same broker snapshot leaves the same holdings (symbol, exchange, quantity,
\* averagePrice, currentPrice) and the same four totals as the first left.
C17_FullSyncIdempotent ==
    \A s \in Slots :
        (pfLast[s].op = "sync" /\ pfLast[s].outcome = "ok" /\ pfLast[s].repeat) =>
            /\ SyncedFields(portfolio.holdings) = SyncedFields(pfLast[s].before.holdings)
            /\ FourTotals(portfolio) = FourTotals(pfLast[s].before)

\* the second of two successful syncs with one snapshot has finished, and the
\* portfolio holds something whose totals are not zero
C17_Witness ==
    \E s \in Slots :
        /\ pfLast[s].op = "sync" /\ pfLast[s].outcome = "ok" /\ pfLast[s].repeat
        /\ Len(portfolio.holdings) = 2
        /\ portfolio.totalPnL # 0

\* C18: once a full-sync request that stored syncStatus = syncing has finished,
\* with success or with any error (a failed broker call, or a failure while
\* saving the rebuilt holdings), the stored syncStatus is not syncing.
C18_SyncingIsLeft ==
    \A s \in Slots :
        pfLast[s].op = "sync" => portfolio.syncStatus \in {"completed", "failed"}

\* C22: the (symbol, exchange) pair is unique within the stored holdings in
\* every state reachable by full sync, manual add or update, removal and price
\* refresh, for every broker snapshot the sync may receive.
C22_HoldingKeyUnique ==
    \A i, j \in 1..Len(portfolio.holdings) :
        /\ portfolio.holdings[i].symbol = portfolio.holdings[j].symbol
        /\ portfolio.holdings[i].exchange = portfolio.holdings[j].exchange
        => i = j

\* P&L% recomputed from the current fields of a holding, 0 when the invested
\* value is 0
RecomputedPnlPercentage(h) ==
    IF h.quantity * h.averagePrice = 0 THEN 0
    ELSE Percent(h.currentPrice - h.averagePrice, h.averagePrice)

\* C23: in every reachable state, the P&L% of each stored holding, which
\* topMovers ranks by, equals the value recomputed from the holding's current
\* fields; in particular after a price refresh or an in-place manual update.
C23_PnlPercentageIsRecomputed ==
    \A i \in 1..Len(portfolio.holdings) :
        portfolio.holdings[i].pnlPercentage =
            RecomputedPnlPercentage(portfolio.holdings[i])

--------------------------------------------------------------------------
(* Claims about the order routes, checked under SpecOrders *)

\* the local records carrying a broker order id in orderId or brokerOrderId
RecordsOf(orderid) ==
    { j \in 1..Len(orders) :
        orders[j].orderId = orderid \/ orders[j].brokerOrderId = orderid }

\* the local records with a clientOrderId
RecordsOfClient(clientOrderId) ==
    { j \in 1..Len(orders) : orders[j].clientOrderId = clientOrderId }

\* C4: the local record of a placement request is stored with status PENDING
\* before the broker placement call returns, and every order the broker accepted
\* through a placement request has a local record.
C4_RecordBeforeBrokerCall ==
    /\ placeReq.pc = "calling" =>
          \E j \in RecordsOfClient(placeReq.clientOrderId) : orders[j].status = "PENDING"
    /\ \A i \in 1..Len(brokerBook) :
          brokerBook[i].clientOrderId # Null =>
              RecordsOfClient(brokerBook[i].clientOrderId) # {}

\* the broker holds an order it accepted through a placement request
C4_Witness ==
    \E i \in 1..Len(brokerBook) : brokerBook[i].clientOrderId # Null

C6_RefusedOrderIsRejected ==
    (ordLast.op = "place" /\ ordLast.gateway \in {"failure", "threw"}) =>
        /\ ordLast.outcome = "error"
        /\ ordLast.error = IF ordLast.message # Null THEN ordLast.message
                           ELSE "Failed to place order"
        /\ RecordsOfClient(ordLast.clientOrderId) # {}
        /\ \A j \in RecordsOfClient(ordLast.clientOrderId) :
              /\ orders[j].status = "REJECTED"
              /\ orders[j].rejectionReason = ordLast.error
              /\ orders[j].orderId = Null

\* a placement the broker refused with a message has finished
C6_Witness ==
    ordLast.op = "place" /\ ordLast.gateway = "failure" /\ ordLast.message # Null

\* the validation rules of order placement, in the order the specification
\* gives them: the number of the first rule a body violates, 0 if none
FirstViolatedRule(body) ==
    IF body.symbol = Null \/ body.quantity = Absent THEN 1
    ELSE IF ~(body.quantity > 0) THEN 2
    ELSE IF body.orderType \in {"LIMIT", "SL"}
            /\ (body.price = Absent \/ ~(body.price > 0)) THEN 3
    ELSE IF body.orderType \in {"SL", "SL-M"}
            /\ (body.triggerPrice = Absent \/ ~(body.triggerPrice > 0)) THEN 4
    ELSE 0

RuleMessage(rule) ==
    CASE rule = 1 -> "Please provide all required fields"
      [] rule = 2 -> "Quantity must be positive"
      [] rule = 3 -> "Price is required for LIMIT and SL orders"
      [] rule = 4 -> "Trigger price is required for SL and SL-M orders"
      [] OTHER -> "ok"

\* a step that takes in a placement request, and the body it carries
PlacementTaken ==
    /\ placeReq.pc = "idle"
    /\ \/ placeReq'.pc = "calling"
       \/ ordLast' # ordLast /\ ordLast'.op = "place" /\ ordLast'.outcome = "invalid"

TakenBody == IF placeReq'.pc = "calling" THEN placeReq'.body ELSE ordLast'.body

\* C7: a placement request that violates a validation rule is rejected before
\* any broker call and without a local record: the stored orders are unchanged.
C7_InvalidRequestLeavesNoTrace ==
    [][(PlacementTaken /\ FirstViolatedRule(TakenBody) # 0) =>
          /\ orders' = orders
          /\ brokerBook' = brokerBook
          /\ placeReq'.pc = "idle"
          /\ ordLast'.outcome = "invalid"]_vars

\* a LIMIT request without a price has been rejected
C7_Witness ==
    /\ ordLast.op = "place" /\ ordLast.outcome = "invalid"
    /\ ordLast.body.orderType = "LIMIT" /\ ordLast.body.price = Absent
    /\ ordLast.body.symbol # Null /\ ordLast.body.quantity > 0
    /\ orders = <<>>

\* C8: the error a rejected placement request surfaces is that of the first
\* rule it violates, in the order required fields, quantity > 0, price,
\* trigger price; also for a request whose only defect is quantity 0.
C8_ErrorOfFirstViolatedRule ==
    (ordLast.op = "place" /\ ordLast.outcome = "invalid") =>
        ordLast.error = RuleMessage(FirstViolatedRule(ordLast.body))

\* C9 as stated: after an order sync returns, every broker order of the snapshot
\* has exactly one local record carrying its id.
C9_ExactlyOneRecord ==
    (ordLast.op = "sync" /\ ordLast.outcome = "ok") =>
        \A id \in ordLast.ids : Cardinality(RecordsOf(id)) = 1

\* C9 as amended: after an order sync returns, every broker order of the snapshot
\* has at most one local record carrying its id, and exactly one unless the
\* store refused its synthetic record, in which case it may have none.
C9_AtMostOneRecord ==
    (ordLast.op = "sync" /\ ordLast.outcome = "ok") =>
        \A id \in ordLast.ids :
            /\ Cardinality(RecordsOf(id)) <= 1
            /\ RecordsOf(id) = {} => id \in ordLast.refused

\* a sync has returned whose snapshot listed one order id twice: the first entry
\* made the record, the second updated it
C9_Witness ==
    /\ ordLast.op = "sync" /\ ordLast.outcome = "ok"
    /\ ordLast.newOrdersCount = 1 /\ ordLast.syncedCount = 1
    /\ \E id \in ordLast.ids : Cardinality(RecordsOf(id)) = 1

\* a turn of the sync loop, the broker order it handles, and whether a local
\* record carries that order's id
SyncTurn == syncReq.pc = "loop" /\ syncReq.data # <<>>

TurnOrder == Head(syncReq.data)

\* the local orders whose broker ids are not in the snapshot stay as they are
OthersUntouched ==
    /\ Len(orders') >= Len(orders)
    /\ \A j \in 1..Len(orders) :
          (orders[j].orderId \notin syncReq.ids /\ orders[j].brokerOrderId \notin syncReq.ids)
              => orders'[j] = orders[j]

\* the handled broker order got a record of its own, appended to the collection
OwnNewRecord ==
    /\ Len(orders') = Len(orders) + 1
    /\ orders'[Len(orders')].orderId = TurnOrder.orderid
    /\ orders'[Len(orders')].brokerOrderId = TurnOrder.orderid
    /\ orders'[Len(orders')].clientOrderId = "SYNC_" \o TurnOrder.orderid
    /\ \A j \in 1..Len(orders) : orders'[j] = orders[j]

\* C10 as stated: an order sync leaves every local order whose broker id is not
\* in the snapshot untouched, and a broker order no local record carries the id
\* of gets its own new record.
C10_UnknownOrderAlwaysGetsRecord ==
    [][SyncTurn =>
          /\ OthersUntouched
          /\ RecordsOf(TurnOrder.orderid) = {} => OwnNewRecord]_vars

\* C10 as amended: an order sync leaves every local order whose broker id is not
\* in the snapshot untouched (a local order with only a client id too, whatever
\* its symbol and quantity), and a broker order no local record carries the id
\* of gets its own new record when the store accepts it, and none otherwise.
C10_SyncTouchesOnlyItsOrders ==
    [][SyncTurn =>
          /\ OthersUntouched
          /\ RecordsOf(TurnOrder.orderid) = {} =>
                IF TurnOrder.status \in OrderStatuses THEN OwnNewRecord
                ELSE orders' = orders]_vars

\* a sync has returned that made a record for a broker order while a local
\* order of the same symbol and quantity with only a client id stayed as it was
C10_Witness ==
    /\ ordLast.op = "sync" /\ ordLast.outcome = "ok" /\ ordLast.newOrdersCount = 1
    /\ \E j, k \in 1..Len(orders) :
          /\ orders[j].orderId = Null /\ orders[j].brokerOrderId = Null
          /\ orders[j].status = "REJECTED"
          /\ orders[k].clientOrderId = "SYNC_" \o orders[k].orderId
          /\ orders[k].symbol = orders[j].symbol
          /\ orders[k].quantity = orders[j].quantity

\* a local record carries the id of the broker order the loop turn handles
TurnMatched == RecordsOf(TurnOrder.orderid) # {}

\* a missing number of the broker record read as 0
OrZero(v) == IF v = Absent THEN 0 ELSE v

\* C11: for every broker order of a snapshot that matches a local order by
\* orderId or brokerOrderId, after the sync has handled it the record's status,
\* filledQuantity, averagePrice and exchangeOrderId are those the broker reported
\* (a missing filled quantity or average price taken as 0).
C11_MatchedOrderTakesBrokerValues ==
    [][(SyncTurn /\ TurnMatched) =>
          \A j \in RecordsOf(TurnOrder.orderid) :
              /\ orders'[j].status = TurnOrder.status
              /\ orders'[j].filledQuantity = OrZero(TurnOrder.filledshares)
              /\ orders'[j].averagePrice = OrZero(TurnOrder.averageprice)
              /\ orders'[j].exchangeOrderId = TurnOrder.exchorderid]_vars

\* C12: a broker order that matches a local order is counted in syncedOrders
\* only if the sync changed the record's status, filled quantity, average price
\* or exchange order id; a matched order the sync changes nothing of is not counted.
C12_CountsOnlyRealUpdates ==
    [][(SyncTurn /\ TurnMatched /\ syncReq'.syncedCount = syncReq.syncedCount + 1) =>
          \E j \in RecordsOf(TurnOrder.orderid) :
              \/ orders'[j].status # orders[j].status
              \/ orders'[j].filledQuantity # orders[j].filledQuantity
              \/ orders'[j].averagePrice # orders[j].averagePrice
              \/ orders'[j].exchangeOrderId # orders[j].exchangeOrderId]_vars

\* C13: when the store refuses the synthetic record of an unmatched broker
\* order, the sync goes on with the rest of the snapshot: the record is skipped,
\* it is not counted as created, and the request does not end with an error
\* there (an order sync ends with an error only at the update of a known order).
C13_RefusedCreateIsSkipped ==
    [][/\ (SyncTurn /\ ~TurnMatched /\ TurnOrder.status \notin OrderStatuses) =>
             /\ syncReq'.pc = "loop"
             /\ syncReq'.data = Tail(syncReq.data)
             /\ syncReq'.newOrdersCount = syncReq.newOrdersCount
             /\ syncReq'.syncedCount = syncReq.syncedCount
             /\ orders' = orders
             /\ ordLast' = ordLast
       /\ (SyncTurn /\ ordLast' # ordLast) => TurnMatched
       /\ (syncReq.pc = "loop" /\ syncReq.data = <<>>) =>
             /\ ordLast'.outcome = "ok"
             /\ ordLast'.newOrdersCount = syncReq.newOrdersCount]_vars

\* a sync has returned success after a refused create: a later entry of the
\* snapshot was still handled and made the one record counted as created
C13_Witness ==
    /\ ordLast.op = "sync" /\ ordLast.outcome = "ok"
    /\ ordLast.refused # {}
    /\ ordLast.newOrdersCount = 1
    /\ \E id \in ordLast.refused : Cardinality(RecordsOf(id)) = 1

--------------------------------------------------------------------------
(* Claims about getTopMovers, checked under SpecMovers *)

\* the place of the holding at index i in the list sorted by P&L% descending,
\* ties in the order of the list: one more than the holdings that come before it
PlaceOf(hs, i) ==
    1 + Cardinality({ j \in 1..Len(hs) :
                        \/ hs[j].pnlPercentage > hs[i].pnlPercentage
                        \/ hs[j].pnlPercentage = hs[i].pnlPercentage /\ j < i })

SortedByPlace(hs) ==
    [r \in 1..Len(hs) |-> hs[CHOOSE i \in 1..Len(hs) : PlaceOf(hs, i) = r]]

IsGainer(h) == h.pnlPercentage > 0
IsLoser(h) == h.pnlPercentage < 0

\* the first limit gainers of the sorted list
FirstGainers(hs, limit) ==
    LET gainers == SelectSeq(SortedByPlace(hs), IsGainer)
    IN [i \in 1..(IF limit < Len(gainers) THEN limit ELSE Len(gainers)) |-> gainers[i]]

\* the last limit losers of the sorted list, the worst first
LastLosers(hs, limit) ==
    LET losers == SelectSeq(SortedByPlace(hs), IsLoser)
    IN [i \in 1..(IF limit < Len(losers) THEN limit ELSE Len(losers)) |->
           losers[Len(losers) + 1 - i]]

\* C14: for every holdings list and every limit >= 1, topGainers is the first
\* limit holdings with P&L% > 0 of the list stably sorted by P&L% descending and
\* topLosers the last limit holdings with P&L% < 0 of that list, reversed so the
\* worst is first; a holding with P&L% 0 is in neither.
C14_TopMoversOfSortedList ==
    (movers.returned /\ movers.limit >= 1) =>
        /\ movers.topGainers = FirstGainers(movers.holdings, movers.limit)
        /\ movers.topLosers = LastLosers(movers.holdings, movers.limit)
        /\ \A i \in 1..Len(movers.topGainers) : movers.topGainers[i].pnlPercentage # 0
        /\ \A i \in 1..Len(movers.topLosers) : movers.topLosers[i].pnlPercentage # 0

\* the call on P&L% 10, -5, 0, 30, -20 with limit 3 has returned 30, 10 and -20, -5
C14_Witness ==
    /\ movers.returned /\ movers.limit = 3 /\ movers.holdings = FiveMovers
    /\ [i \in 1..Len(movers.topGainers) |-> movers.topGainers[i].pnlPercentage] = <<30, 10>>
    /\ [i \in 1..Len(movers.topLosers) |-> movers.topLosers[i].pnlPercentage] = <<-20, -5>>

\* C15: for every holdings list and every limit >= 0, limit 0 included,
\* topGainers and topLosers each contain at most limit holdings.
C15_AtMostLimitMovers ==
    movers.returned =>
        /\ Len(movers.topGainers) <= movers.limit
        /\ Len(movers.topLosers) <= movers.limit

\* C20: REJECTED, COMPLETE and CANCELLED are terminal: once the stored status
\* of a local order is one of them, no later operation (order sync with any
\* broker-reported status, modify, cancel) changes that order's status.
C20_TerminalStatusStays ==
    [][\A j \in 1..Len(orders) :
          orders[j].status \in {"REJECTED", "COMPLETE", "CANCELLED"} =>
              orders'[j].status = orders[j].status]_vars

\* C21: filledQuantity <= quantity holds for every stored order in every state
\* reachable by placement, modification, cancellation and order sync.
C21_FilledWithinQuantity ==
    \A j \in 1..Len(orders) : orders[j].filledQuantity <= orders[j].quantity

\* C24: a failure while handling any single broker order during an order sync,
\* a failure while saving the update to an already known local order included,
\* is caught and skipped: the loop goes on with the rest of the snapshot.
C24_SingleFailureIsSkipped ==
    [][SyncTurn =>
          /\ syncReq'.pc = "loop"
          /\ syncReq'.data = Tail(syncReq.data)]_vars

\* a modify or cancel request finishes with this step
ChangeRequestFinishes ==
    /\ ordLast' # ordLast
    /\ ordLast'.op \in {"modify", "cancel"}

\* the order a successful modification leaves: the fields the body gives
\* replace the stored ones and the status is MODIFIED
AmendedOrder(doc, body) ==
    [doc EXCEPT !.orderType = IF body.orderType = Null THEN @ ELSE body.orderType,
                !.quantity = IF body.quantity = Absent THEN @ ELSE body.quantity,
                !.price = IF body.price = Absent THEN @ ELSE body.price,
                !.triggerPrice = IF body.triggerPrice = Absent THEN @ ELSE body.triggerPrice,
                !.status = "MODIFIED"]

\* C29: modify and cancel change a stored order only when its status is
\* PENDING or OPEN and the broker call reports success; modify then stores
\* the new fields with status MODIFIED, cancel stores CANCELLED.  When the
\* status check fails, or the broker reports failure or throws, the stored
\* order is left exactly as it was and the request returns an error.
C29_ChangeOnlyWhenLiveAndAccepted ==
    [][ChangeRequestFinishes =>
          /\ Len(orders') = Len(orders)
          /\ \A j \in 1..Len(orders) :
                orders'[j] # orders[j] =>
                    /\ orders[j].status \in {"PENDING", "OPEN"}
                    /\ ordLast'.gateway = "success"
                    /\ ordLast'.outcome = "ok"
                    /\ ordLast'.target = orders[j].clientOrderId
                    /\ ordLast'.op = "modify" =>
                          \E body \in ModifyBodies : orders'[j] = AmendedOrder(orders[j], body)
                    /\ ordLast'.op = "cancel" =>
                          orders'[j] = [orders[j] EXCEPT !.status = "CANCELLED"]
          /\ ordLast'.outcome = "ok" => orders' # orders
          /\ (\/ ordLast'.gateway \in {"failure", "threw"}
              \/ /\ ordLast'.was # NoOrder
                 /\ ordLast'.was.status \notin {"PENDING", "OPEN"})
                => /\ orders' = orders
                   /\ ordLast'.outcome = "error"]_vars

\* a modify request on an OPEN order has ended with the broker call throwing and
\* the order is stored as it was
C29_Witness ==
    /\ ordLast.op = "modify" /\ ordLast.gateway = "threw" /\ ordLast.outcome = "error"
    /\ ordLast.was.status = "OPEN"
    /\ \E j \in 1..Len(orders) : orders[j] = ordLast.was

\* C30: MODIFIED is a transient marker, not a dead end: after a successful
\* modification of a live order, a later cancel or modify request for that
\* order is still accepted on status grounds, with no order sync in between.
C30_ModifiedOrderStaysChangeable ==
    \A j \in 1..Len(orders) :
        orders[j].status = "MODIFIED" => canBeModified(orders[j]) /\ canBeCancelled(orders[j])

--------------------------------------------------------------------------
(* Claims about the order routes with requests interleaved, checked under *)
(* SpecOrdersConcurrent                                                    *)

\* a step with which a placement request that had stored its record finishes
PlacementFinishes ==
    /\ placeReq.pc # "idle" /\ placeReq'.pc = "idle"
    /\ ordLast'.op = "place" /\ ordLast'.outcome \in {"ok", "error"}

\* C19: a placement request that stored a PENDING record and has finished,
\* with a response or with an error, leaves the record OPEN or REJECTED, never
\* PENDING; also when saving the OPEN update itself failed.
C19_PendingIsLeft ==
    [][PlacementFinishes =>
          \A j \in RecordsOfClient(placeReq.clientOrderId) :
              orders'[j].status \in {"OPEN", "REJECTED"}]_vars

\* C26: for every interleaving of an order placement and an order sync, an
\* order accepted by the broker ends with exactly one local record carrying its
\* broker order id, and the record the placement request created ends with
\* status OPEN, not PENDING or REJECTED.
C26_AcceptedOrderEndsOpen ==
    [][(PlacementFinishes /\ ordLast'.gateway = "success") =>
          /\ Cardinality({ j \in 1..Len(orders') :
                             \/ orders'[j].orderId = ordLast'.orderid
                             \/ orders'[j].brokerOrderId = ordLast'.orderid }) = 1
          /\ \A j \in RecordsOfClient(placeReq.clientOrderId) :
                orders'[j].status = "OPEN"]_vars

--------------------------------------------------------------------------
(* Claims about the portfolio routes with requests interleaved, checked *)
(* under SpecPortfolioConcurrent                                          *)

\* the positions of a broker snapshot: the records with quantity > 0, with the
\* average price the broker reports (the price field where it reports none)
RECURSIVE SnapshotPositions(_)
SnapshotPositions(data) ==
    IF data = <<>> THEN <<>>
    ELSE IF Head(data).quantity > 0
         THEN <<[symbol |-> Head(data).tradingsymbol, exchange |-> Head(data).exchange,
                 quantity |-> Head(data).quantity,
                 averagePrice |-> IF Head(data).averageprice = Absent
                                  THEN Head(data).price
                                  ELSE Head(data).averageprice]>>
              \o SnapshotPositions(Tail(data))
         ELSE SnapshotPositions(Tail(data))

\* the stored holdings as positions
StoredAveragePositions ==
    [i \in 1..Len(portfolio.holdings) |->
        [symbol |-> portfolio.holdings[i].symbol,
         exchange |-> portfolio.holdings[i].exchange,
         quantity |-> portfolio.holdings[i].quantity,
         averagePrice |-> portfolio.holdings[i].averagePrice]]

\* both requests of the pair have finished
BothFinished ==
    /\ \A s \in Slots : pfReq[s].pc = "idle"
    /\ \A s \in Slots : pfLast[s].op # "none"

\* C27: for every interleaving of a full sync and a price refresh, once both
\* have finished and the sync stored completed, the stored holdings have the
\* symbols, exchanges, quantities and average prices of the broker snapshot
\* that sync fetched: the refresh does not write an older holdings list back.
C27_RefreshKeepsSyncedHoldings ==
    \A s, t \in Slots :
        (/\ BothFinished
         /\ pfLast[s].op = "sync" /\ pfLast[s].outcome = "ok"
         /\ pfLast[t].op = "prices")
            => StoredAveragePositions = SnapshotPositions(pfLast[s].snapshot)

\* C28: for every interleaving of two full syncs, after both have finished the
\* stored holdings are the quantity > 0 records of one of the two fetched
\* snapshots, the stored totals are the fold over the stored holdings, and
\* the stored syncStatus is completed or failed.
C28_TwoSyncsEndConsistent ==
    (/\ BothFinished
     /\ \A s \in Slots : pfLast[s].op = "sync")
        => /\ \E s \in Slots : StoredPositions = HeldRecords(pfLast[s].snapshot)
           /\ C1_TotalsAreFold
           /\ portfolio.syncStatus \in {"completed", "failed"}

--------------------------------------------------------------------------
(* Claims about the browser pages, checked under SpecSyncUi *)

\* C25: the pages never have two portfolio-sync requests in flight at once:
\* while an API.syncPortfolio call issued from the dashboard or the portfolio
\* page is pending, no click on a sync button or alert action, after any
\* number of re-renders, issues another one.
C25_OneSyncInFlight == CallsInFlight <= 1

==========================================================================
